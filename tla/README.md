# A formal model of ai-cs-gateway

`ai-cs-gateway` is the Go gateway of a customer-service chat: it takes a user's message,
answers it by rules, by retrieved knowledge or by a language model, hands it to a person when
it must, and lets operators maintain the rules and the knowledge.  This directory holds TLA+
modules translated from its source, TLC configurations that check them on small instances, and
theorems about them with proofs that TLAPS checks.

Run from this directory: `tlc -config <run>.cfg <MC module>` for a model-checking run (the list
is below), `tlapm <module>.tla` for the proofs of `ChatSendTheorems`, `SessionMemoryTheorems`,
`TraceLoggerTheorems`, `RuleConfigTheorems`, `KnowledgeAdminTheorems`, `RagSearchTheorems`,
`BackOfficeTheorems` and `DecisionTheorems`.

## 1. The system

### Components, their state and their operations

| component | source | state | operations | module |
|---|---|---|---|---|
| chat orchestration | `chat/service.go` `Send` | rows of `cs_conversation`, `cs_message`, `cs_ai_event` | one `Send` per request goroutine | `ChatSend` |
| built-in risk rules | `routing/risk.go` | none (pure) | `Match` | `Routing` |
| configured rules, matching | `routing/dynamic_rule.go` | snapshot of rules under a lock | `Match`, `ReplaceRules` | `Routing`, `RuleConfig` |
| configured rules, administration | `service.go`, `mysql_store.go`, `server.go` | `cs_rule_config` | create, update, reload, load at start | `RuleConfig` |
| response validator | `chat/validator.go` | none (pure) | `validateResponse` | `Routing`, `ChatSend` |
| session memory | `chat/session_memory.go` | Redis key per conversation, 24 h | load, save with trimming | `ChatSend` |
| trace logger | `chat/trace_logger.go` | channel, one goroutine, `cs_trace_log` | `Enqueue`, `run` | `TraceLogger`, its promise in `LossyLog` |
| knowledge administration | `service.go`, `mysql_store.go` | `cs_knowledge`, `_version`, `_chunk`, Milvus, OpenSearch | create, update, publish, roll back, synchronise | `KnowledgeAdmin` |
| RAG search and its cache | `service.go`, `rag_cache.go` | Redis key per query, 5 min | `searchRAG` | `RagSearch` |
| RAG ranking | `service.go` 792-1218 | none (pure) | merge, rerank, thresholds, direct reply | `RagRanking` |
| knowledge chunks | `service.go` 1514-1562 | none (pure) | 500-rune windows | `KnowledgeChunks` |
| category tree | `mysql_store.go` 540-678 | `cs_category` | create, update, delete, list | `CategoryTree` |
| RAG evaluation | `rag_eval.go`, `mysql_store.go` | `cs_rag_eval_case`, `_run`, `_run_item` | create, update, seed, run, save, list | `RagEval` |
| feature flags | `mysql_store.go` 439-506 | `cs_feature_flag` | get, set | in `ChatSend` (one flag) |
| feedback, handoff records, dashboard, quality statistics | `service.go`, `mysql_store.go` | single inserts, read-only aggregates | | not modelled |
| AI client | `ai/client.go` | none | HTTP calls to the Python service | steps that answer or fail |
| handlers, server, configuration, storage, NoopStore, scripts | | | I/O and wiring | not modelled |

### How they interact

* A request goroutine runs `Send` from top to bottom: store the conversation and the question;
  match configured rules, then the built-in ones; otherwise read the smart-reply flag, load the
  session memory, search the knowledge, ask the model, validate the answer; store reply and
  event; save the memory; offer the trace to the logger.  Each visit to MySQL, Redis or the AI
  service may fail, each failure has its own early return, and nothing is rolled back.
* The logger's goroutine takes traces from a channel and writes them; a full channel drops.
* The back office changes tables that running requests read (rules through a reload, the flag,
  knowledge), in request goroutines of its own.
* An operation on knowledge writes, one external call after the other, the row, its version, the
  chunks, the vector index, the vector ids, the keyword index, and clears the result cache.
* A search reads the cache, starts a keyword and a vector goroutine, each an index query and a
  look-up in MySQL, joins them, ranks, and fills the cache.

### What is hard

Overlapping calls of one conversation (the memory is a read-modify-write in Redis), retries of a
message whose reply was lost, an error or a crash between any two writes, a configuration that
changes under a running call, reloads that overlap, the back office's six-store update that
stops in the middle, indexes and a cache that lag behind the tables, outages of each index.
`PROJECT.json` lists these hazards at their lines, each with the properties that cover it or the
reason why none does.

### What makes each component correct

* chat: what the user was told is what is stored; hard rules precede the model; a sensitive
  question ends with a person; a message is answered once; no promise of the model leaks; every
  call ends and offers exactly one trace.
* memory: whole turns of one conversation, in order, each of them in the message table.
* logger: never blocks, never duplicates, settles every record.
* rules: every message is decided by one configuration in its priority order; a reload shows the
  table.
* knowledge: chunks of one version as a whole; an operation that succeeded left all stores in
  agreement, as far as the AI service took what it was sent; vector ids are never ahead of the
  vector store; history has what can be rolled back.
* search: survives index outages, returns only what its knowledge has said, stale cache entries
  go away, drafts and replaced texts are not found.
* ranking: the merge keeps the best of what was found, each chunk once, and the reranker can only
  reorder or repeat it; a cache hit serves what the miss that filled it served; a passage that is
  sent as the answer is ahead of what the one comparison of the code can tell.
* chunks: the loop ends; a phrase no longer than the overlap is whole in some chunk.
* categories: levels, paths and parents agree, at most three levels, no parent goes missing under
  a foreign key; the list is the tree from top to bottom.
* evaluation: an undisturbed seeding reports the table as it is; a listed run has the items it
  counts; its two verdicts (passed, unsafe) never contradict each other.

## 2. The modules

`Routing` - text decisions as operators.  Every one of them asks which fixed terms a message
contains, so a message is a record of two sets of terms: `words`, the terms it contains, and
`folded`, those it contains once blanks and punctuation are removed (`normalizeRAGText`, which
only the direct-reply test applies).  Terms that contain other terms are closed under parts
(`PartOf`).  Terms are written in pinyin with the Chinese text beside them.

`TraceLogger` - channel, record in hand, table, and a ghost `lost` for what was dropped, failed
or died with the process.  `LossyLog` is its promise without channel and goroutine: what is
offered is stored or lost, once and for ever, and never waits for good.  `TraceLogger` maps
`pending` to the records of the channel and the one in hand (`Promise`), and `KeepsPromise` says
that it implements the promise, its fairness included.

`ChatSend` - extends `Routing`, instantiates `TraceLogger` with its calls as records.  One action
per stage of `Send`; a stage ends at the next visit to the outside.  `pc[k]` is the stage of
call `k`, `resp[k]` the response being built, `loaded[k]` the memory it read.  `Fail` is
`saveTraceError` and the early return; `Routed` is `saveRoutedResponse` up to its first write; a
failed write may have happened nevertheless.  The environment reloads rules (`ReloadRules`
installs any of `RuleSnapshots`), sets the flag, expires memory and restarts the process, which
ends running calls (`broken`) and empties the channel.  Whether `cs_message.message_id` is unique
is the constant `UniqueMessageId`, because the schema is not in the repository.
`WholeTurnsAssumption` says that the memory's limit is even, as the code's 6 is
(`session_memory.go:15`): an odd one would cut a turn in two.

`RuleConfig` - the table, the router's snapshot and the reload in two steps, plus the start of the
process; it extends `Routing`, so that the decision on a message is the one `ChatSend` uses. It says
which snapshots `ChatSend` may be given: any state the table has had, or none after a start that
could not load.  `ReplaceRules` filters the enabled rules a second time in the code, and here
(`Replace`, by the places of the rules that stay).  The ghosts `timely` and `alone` say of a running
reload that it began after the last edit and overlapped no other; `applied` and `shown` that such a
one has succeeded.

`KnowledgeAdmin` - one variable per store and, per operator, the call the operation is about to
make (`pc`), its record, the chunks and what is left of the batches (`op`).  Every call may fail
with or without its effect (`Abandon` is the early return).  The two transactions
(`replaceKnowledgeChunks`, `UpdateKnowledgeChunkVectorIDs`) are one step each.  `settled` and
`recorded` are ghosts: the rows whose last operation returned success and overlapped no other that
could touch the same row.  Whether two operations clash depends on their knowledge ids, and a
publication or a roll back learns its own only when it reads the row; so operations take note of
each other twice, when they begin and when they have read (`Noticed`).  Noting it at the beginning
only is not enough: with four operations a publication whose row was renamed meanwhile would count
as undisturbed.  The AI service may take any part of a batch and list any part of what it took, and
the call succeeds: the code goes on with what is listed (`service.go:714`) and does not look at the
keyword answer (`729`).  `covered` is the third ghost: the settled rows whose answers each covered
their batch (`ContinueShort` is the step of an answer that did not).  `Pieces` is the number of
chunks of a text.  `knowledge_id` is taken to be unique (the joins of the code assume it).

`RagSearch` - extends `KnowledgeAdmin` with the cache and the searches.  An index answers with up to
`TopK` of its items, whichever; `Lookup` joins them with the table; an item the table does not know
keeps the index's text; which matches survive the ranking is a choice.  The ghost `said` is every
record that a row has been, by which `PassagesAreKnowledge` asks where a passage came from; the
history table would not do, since a row whose second write failed is in no history and yet may be
found.  `Clear` empties the cache, or part of it when SCAN or DEL fails.  The choice is justified by
`RagRanking`, whose `RankingSelects` says that the ranking keeps some of the matches and invents
none.

`RagRanking` - the steps of one search between the join of its goroutines and the reply: `Merge`,
`Rerank`, `Decide`.  A chunk is what the ranking asks of it: whether its row was found, whether it
has a text and a long one, how many words of the query are in its question, its text, and the rest
of its row.  Either index may repeat a chunk; the code takes the last of its scores for all
(`service.go:880`). Scores are thousandths, so that the weights and thresholds of the code are
whole numbers; a rounding of the last bit of a float right at a threshold is left out.  The
reranker answers with any sequence, up to `MaxRanking` items, of documents and of ids nobody sent,
repeated or not, with any scores.  `orderly` is a ghost: in the reranker's answer the documents
descend, with all their scores on one side of 1, where `normalizeRerankScore` changes its formula
(`OnOneScale`).  The loop of the merge is a function of the number of matches it has taken
(`MergedUpTo`); sorting and filtering give each item that stays a place (`Arranged`, `Only`).
`ScoresAssumption` says that the indexes' and the reranker's scores are numbers, of any size and
sign.

`KnowledgeChunks` - `buildKnowledgeChunks`, one round of the loop a step.  A text is which of its
runes are ink and which blank; a chunk is the set of positions it holds, so that a property can
ask what of the text is in it.  `KnowledgeAdmin` takes only the number of chunks from it
(`Pieces`).

`CategoryTree` - a step is one statement as others see it: `GetParent`, `Insert` (which draws the
id and locks the parent under a foreign key), `Commit`; `CountChildren`, `Delete`.  Whether
`parent_id` is a foreign key is the variable `foreignKey`, set once, because the schema is not in
the repository.  A path is the sequence of ids; `Spelled` makes the string of it that the list is
sorted by, in base `Base`, with the slash below the digits (`Digits` spells one id).

`RagEval` - cases in the order of their ids, runs and their items; per operator the call it is
about to make and the local variables of `SeedRAGEvalCases` and `RunRAGEvalCases`.  The search it
runs is any of `Found`.  A seeding works through a list by the least place that still gives a new
case.  The knowledge is finite and the largest target is at least 1 and the default within it, as
500 and 200 are.  Whether `case_id` is a unique key is the variable `uniqueCase`.  The
limit on the list of runs is left out: with it a reader sees some of the runs it sees here.

`MC*` modules give the constants values; a `.cfg` is one run.  `MCDecisions` and `MCBackOffice` put
parts that share no state into one run each: a behaviour chooses in its initial state which part it
is about (`about`, `part`), and the others stay at rest, so the parts do not multiply.  Definitions
with an underscore and a description (`Fresh_NoVectorId`, `Replace_Append`, ...) are mutated forms
of the definition they precede: each property was seen to fail under one of them.

## 3. The runs

| run | instance | checks | result |
|---|---|---|---|
| `decisions` | messages of up to 3 of the 37 terms, plain or broken up; searches over 4 kinds of chunk, `TopK` 3, reranker's answers of up to 3 items; texts of up to 2 + 9 runes, windows of 4, overlap 2 | `SensitiveIsHandedOff`, `HandoffIsMonotone`; `HitEqualsMiss`, `DirectReplyIsClear`, `RankingSelects`; `PhrasesWhole`, `CutEnds` | hold |
| `trace_logger` | 4 records, channel of 2 | `SinglePlace`, `EventuallySettled`, `KeepsPromise` | hold |
| `chat_kinds` | 1 call, 7 kinds of message, all model replies, 1 failure, 1 restart | `TypeOK`, `ReplyIsRecorded`, `HardRulesBeforeAI`, `SensitiveHandedOff`, `NoPromiseLeaks` | hold |
| `chat_overlap` | 2 calls, retries, 2 failures, 1 restart, channel of 1 | `NoOrphanRows`, `TraceOncePerCall`, `AnsweredOnce`, `CallsEnd` | hold |
| `chat_memory` | 3 calls, 2 conversations, memory of 4 messages | `MemoryIsTranscript`, `MemoryCoherent` | hold |
| `rules_overlap` | 2 operators, 3 edits, 2 failures, 1 stop | `RuleTypeOK`, `DecidedByOneConfiguration`, `LoneReloadShowsTable` | hold |
| `rules_race` | 2 operators, 2 edits | `ReloadShowsTable` | **violated** |
| `knowledge_overlap` | 2 operators, 2 rows, 3 operations, 1 call that fails or is answered for part of its batch, batches of 1 and 2 | `TypeOK`, `ChunksAreWhole`, `VectorIdMeansIndexed`, `SettledIsComplete`, `RowsAreInHistory` | hold |
| `back_office` | 2 operators: 4 categories, paths in base 2; or 2 operations on 3 tables of cases, 1 failure | `TreeIsSound`, `ListingIsPreorder`; `SeedReportsTable`, `ListedRunsAreWhole`, `QualityExplainsFailures` | hold |
| `rag_search` | 1 search after another, 1 operator, 2 rows, 2 operations, 2 outages, 1 failure | `SearchTypeOK`, `SearchSurvivesIndexes`, `PassagesAreKnowledge`, `CacheBecomesFresh` | hold |
| `rag_drafts` | 1 search, 1 operator, a text and its draft | `DraftsNotFound` | **violated** |
| `rag_shortened` | 1 search, 1 operator, 2 chunks then 1 | `OldTextNotFound` | **violated** |

### Why the bounds are enough

* Routing: a decision depends on the first list entry that has a term of the message, and two terms
  decide which of two entries wins; three leave a margin for a term and its part.  The theorem
  removes the bound.
* Chat: the properties of `chat_kinds` speak of one call, whose surroundings (rules, flag, memory,
  restart) are free; overlap matters through the message table and the memory, for which two and
  three calls give every pair of reads and writes.  A channel of one is full at once. A memory of
  four messages is trimmed by the third turn.
* Rules: two operators give the overlapping reloads, three ids with equal and different priorities
  the order, three edits an edit before, between and after the two halves of a reload.  The theorems
  remove the bounds.
* Knowledge: batches of one and two over texts of one and two chunks make a batch smaller than,
  equal to and larger than what is left.  Two rows and two knowledge ids include a row whose
  `knowledge_id` is edited.  Three operations are one that leaves something, and two that overlap on
  it.  The theorems remove the bounds.
* Search: one search in flight against the operations is what the cache and index races take: a
  second one would only meet the entry that the first left.  Two outages fail both goroutines.
* Ranking: the scores lie on both sides of the thresholds 780, 740, 900 and 930 once the words are
  weighed; the reranker has fractions, a raw score and none; the four chunks are a good answer, a
  poor one, and what only an index still has, with a text and without.  Three matches are one more
  than the direct-reply test looks at, and three items of the reranker are enough to repeat one and
  push another out.  The theorems remove the bounds.
* Chunks: all patterns of ink and blanks over lengths from none to more than two windows, so that
  the last window is empty, short, exactly full and one rune too long.  The theorem removes the
  bound.
* Categories: four rows make the three levels and a refused fourth; base 2 makes ids of one and of
  more digits; the theorems remove both bounds.  Two operators are a count and its delete around
  another's insert and commit.
* Evaluation: two operations overlap or follow each other; a table that an interrupted seeding
  leaves is one of the initial tables, so that a repeated seeding needs no third.  The targets are
  below, at and above what the knowledge gives.

Deadlock is checked except in `decisions` (a message, a search or a text that is complete),
`knowledge_overlap` and `back_office` (the operators have made their last request).

### Fairness

`ChatSend`: weak fairness of each running call's next step - a goroutine is scheduled, and every
external call returns or errors (the AI client has a timeout, the database and Redis drivers
return errors).  Nothing is assumed of the logger, of clients or of operators.  `TraceLogger`:
weak fairness of the goroutine that saves, each save having a timeout.  `KnowledgeChunks`: the loop
runs.  `RagSearch`: weak
fairness of running searches and operations, and of the expiry of a cache entry, which Redis
does by itself.  That operators stop is the bound `MaxOperations`; without it "eventually fresh"
would have to exclude the moment after each edit.

## 4. What disagrees with the repository's own words

* `rules_race`: overlapping reloads may leave the older list installed, against
  `handler.go:116`.  For a reload that overlaps no other the claim holds
  (`LoneReloadShowsTable` in `rules_overlap`).
* `rag_drafts`: a draft is found by a search that starts after the edit returned, against
  `service.go:643`.  There are two ways: a search in flight fills the cache after it was
  cleared, and an index item whose chunk is gone is answered from the index (`service.go:887`).
* `rag_shortened`: the old second chunk is recalled from the index after the text was shortened,
  against `mysql_store.go:901`.  The cause is that nothing ever deletes from the indexes, which
  also makes the alignment that `service.go:676` speaks of one-sided: the table's chunk ids are
  in the vector store (`SettledIsComplete`), not the other way round.

Observations that contradict nothing the repository says:

* `sort_order` never decides the order of the categories: the list is sorted by path first, and
  every path ends in an id of its own (`mysql_store.go:548`).
* `normalizeRerankScore` is not monotone: a raw score just above 1 is mapped lower than a score of
  1 (`service.go:906`), a score of 0 leaves the old one (`903`), and the reranker's order is taken
  as it comes (`828`).  The direct reply compares the first usable match with the second only
  (`1041`), so below 930 it may go out although a later match is close or better: when the
  reranker's answer is not `orderly`, or when it leaves a match out behind two it ranked.
  `DirectReplyIsClear` says what holds beside these cases, and exempts them.  That a risky question
  gets no direct reply is one conjunct of the test and not claimed as a property.
* The loop over the reranker's answer never asks whether an item was used already (`830-843`): a
  document that it names twice is in the result twice, and the cut at `TopK` (`851`) may then drop
  another match.  `RankingSelects` says that this is the only way to lose one.
* A successful answer of the AI service may cover part of a batch.  The operation goes on, reports
  fewer vectors than chunks (`service.go:713`, `VectorTotal` beside `ChunkTotal`) and leaves chunks
  without a vector id; about the keyword index it reports nothing (`729`).  A later synchronisation
  repairs it if it is answered in full.
* The later of two overlapping calls of a conversation overwrites the other's turn in the session
  memory (`service.go:1409`), and a failed read wipes it (`1391`).
* Without a foreign key a category created between the count and the DELETE is an orphan
  (`mysql_store.go:660`); without a unique key two overlapping seedings create cases twice
  (`rag_eval.go:168`).
* The chunks of an old `knowledge_id` stay when an update changes it (`mysql_store.go:906`).

An update that changes no column answers "rule not found" where MySQL counts changed rows
(`mysql_store.go:433`; likewise 644 and 1193): it has no effect on the state and is not modelled
further.

## 5. What is proved

For every set of calls, requests, model replies and rule lists, every queue and (even) memory size,
any number of operators, rows, searches, failures and restarts (TLC's bounds do not enter the proofs
except as constants):

| theorem | module | says |
|---|---|---|
| `SensitiveIsHandoff` | `ChatSendTheorems` | a message with a term of the validator's sensitive list hits a built-in rule, and the first it hits is a handoff |
| `TypeCorrect` | `ChatSendTheorems` | `Spec => []TypeOK` |
| `RepliesAreRecorded` | `ChatSendTheorems` | `Spec => []ReplyIsRecorded` |
| `RulesPrecedeAI` | `ChatSendTheorems` | `Spec => []HardRulesBeforeAI` |
| `SensitiveIsHandedOff` | `ChatSendTheorems` | `Spec => []SensitiveHandedOff` |
| `AnswersAreUnique` | `ChatSendTheorems` | `Spec => []AnsweredOnce` |
| `PromisesNeverLeak` | `ChatSendTheorems` | `Spec => []NoPromiseLeaks` |
| `RowsAreNeverOrphans` | `ChatSendTheorems` | `Spec => []NoOrphanRows` |
| `EveryCallIsTracedOnce` | `ChatSendTheorems` | `Spec => []TraceOncePerCall` |
| `MemoryIsATranscript` | `SessionMemoryTheorems` | `Spec => []MemoryIsTranscript` |
| `MemoryIsCoherent` | `SessionMemoryTheorems` | `Spec => []MemoryCoherent` |
| `RecordsAreInOnePlace` | `TraceLoggerTheorems` | `Spec => []SinglePlace` |
| `ImplementsPromise` | `TraceLoggerTheorems` | `Spec => Promise!Safety`: every step of channel and goroutine is one of `LossyLog` or a stutter |
| `RuleTypesHold` | `RuleConfigTheorems` | `Spec => []RuleTypeOK` |
| `LoneReloadsShow` | `RuleConfigTheorems` | `Spec => []LoneReloadShowsTable` |
| `OneConfigurationDecides` | `RuleConfigTheorems` | `Spec => []DecidedByOneConfiguration` |
| `TypesHold` | `KnowledgeAdminTheorems` | `Spec => []TypeOK` |
| `ChunksStayWhole` | `KnowledgeAdminTheorems` | `Spec => []ChunksAreWhole` |
| `VectorIdsAreTrue` | `KnowledgeAdminTheorems` | `Spec => []VectorIdMeansIndexed` |
| `HistoryIsKept` | `KnowledgeAdminTheorems` | `Spec => []RowsAreInHistory` |
| `SettledRowsAreComplete` | `KnowledgeAdminTheorems` | `Spec => []SettledIsComplete`; its part on complete indexes is about `covered` rows |
| `SearchImplementsAdmin` | `RagSearchTheorems` | `SearchSpec => Spec`: beside searches the administration does what `KnowledgeAdmin` says, so the five theorems above hold there too |
| `SearchTypesHold` | `RagSearchTheorems` | `SearchSpec => []SearchTypeOK` |
| `SearchesSurviveIndexes` | `RagSearchTheorems` | `SearchSpec => []SearchSurvivesIndexes` |
| `PassagesAreFromKnowledge` | `RagSearchTheorems` | `SearchSpec => []PassagesAreKnowledge` |
| `TreeAlwaysSound` | `BackOfficeTheorems` | `TreeSpec => []TreeIsSound` |
| `ListIsThePreorder` | `BackOfficeTheorems` | `TreeSpec => []ListingIsPreorder`, for every base |
| `SeedingsTellTheTruth` | `BackOfficeTheorems` | `EvalSpec => []SeedReportsTable` |
| `ReadersSeeWholeRuns` | `BackOfficeTheorems` | `EvalSpec => []ListedRunsAreWhole` |
| `SummaryExplainsFailures` | `BackOfficeTheorems` | `EvalSpec => []QualityExplainsFailures` |
| `SensitiveMessagesAreHandedOff` | `DecisionTheorems` | the messages that are typed term by term: always `SensitiveIsHandedOff` |
| `HandoffsStay` | `DecisionTheorems` | the same: no step violates `HandoffIsMonotone` |
| `NoPhraseIsTorn` | `DecisionTheorems` | `CutSpec => []PhrasesWhole`, for every text, window and shorter overlap |
| `LoopAlwaysAdvances` | `DecisionTheorems` | each round of the cutting loop but the last moves the window on within the text: the safety half of `CutEnds` |
| `CachedRepliesAreTheSame` | `DecisionTheorems` | `RankSpec => []HitEqualsMiss`, for every set of chunks, scores and rankings |
| `DirectRepliesAreClear` | `DecisionTheorems` | `RankSpec => []DirectReplyIsClear`, with the exceptions of section 4 |
| `RankingSelectsTheBest` | `DecisionTheorems` | `RankSpec => RankingSelects`: no step violates it |

They assume only the named assumptions of the modules on their constants.

`ChatSend`.  The inductive invariant is `SafetyInv == TypeOK /\ StageInv /\ RecordInv /\ RulesInv /\
OnceInv /\ CleanInv`.  None of the properties is inductive: that a finished call is recorded follows
from what each earlier stage has written (`RecordInv`), which needs to know which stages have a
response at all (`StageInv`); that the model is not asked about a hard-rule message needs what
routing ruled out for the stages after it (`RulesInv`), and that in turn, for a sensitive question
the validator turns away, uses `SensitiveIsHandoff`: such a message never gets past the rules.
`OnceInv` relates rows to calls, so that a unique question id makes the answer unique. `CleanInv`
follows a promise through response, row, memory and prompt.  Each part has a lemma "every step keeps
it", and those rest on two frame lemmas: a step of a call leaves the other calls alone and only adds
rows; a step of the environment leaves tables alone and a call either alone or broken.

`NoOrphanRows` follows the order of the three writes through the stages of a call;
`TraceOncePerCall` needs that a call not yet ended is in no place of the logger, and takes the
steps of the logger from `TraceLoggerTheorems`, instantiated with the calls as its records.

Session memory (on top of `SafetyInv`).  What Redis holds is read by one call and written by
another, so `MemoryInv` says of both ends, the memory and what each call has loaded, that it is a
short enough transcript: whole turns, each in the message table, no turn twice, and only of calls
that are past the writing of their turn.  The last part is what makes it inductive: a call about to
save is in nothing it has loaded, so appending its turn repeats none.  Trimming leaves an end of the
sequence, of even length since the limit is even, hence whole turns.  `StoryInv` adds that a prompt
is what its call had loaded, and that the memory continues what its latest turn's call had loaded,
up to what was trimmed at the front.

`TraceLogger`.  The records of channel, hand, table and `lost` are disjoint and the channel holds
each once; from that, taking the head of the channel leaves the pending records what they were,
which is what the refinement needs.

`RuleConfig`.  `ConfigInv` says that the router, and what every running reload has read, are each
the listing of a table that has been, and of the present one where the ghosts say so.  The listing
is by rank (`Listing`): counting the rules above it gives every enabled rule a place of its own, by
facts about cardinalities alone, without induction, so the first rule of the list that a message
hits is the highest enabled one of that table, and no mixture of two tables ever decides.

`KnowledgeAdmin`.  `ChunksAreWhole` and `VectorIdMeansIndexed` speak of tables only, but what is
written to them was computed calls earlier.  `WorkInv` remembers it: an operation about to replace
chunks holds the chunks of whole documents (of one, or, for a synchronisation, of rows that
`KeysInv` keeps apart by knowledge id), and what is no longer in `todo` has been sent to the vector
store, which forgets no id (`KnowledgeGrows`).  `HistoryInv` is about interference: an operation
that overlapped none it clashes with has a row of its own (`AloneInv`), so what it knows of the row
when it writes it is still so when it returns (`RowOf`), and a row with a writer is not among the
recorded ones.  `SettledInv` is the account of an operation that was alone, stage by stage: the
chunks it holds are those of its rows (of all rows, for a synchronisation); once they are replaced,
the table has them; what the answers listed is in the vector store; and as long as every answer
covered its batch, what is sent is in the index it was sent to, and once backfilled every chunk has
its vector id.  `UndisturbedInv` protects what is settled: no operation works on a settled row, and
one that claims its knowledge id for another row is about to be refused by the unique key.  At the
last call the account is `SettledIsComplete` of the row.

`RagSearch`.  A step of a search leaves the variables of `KnowledgeAdmin` alone and any other is
one of its steps or a stutter, which is the refinement; its invariants can then be used for
searches.  `PassagesAreKnowledge` needs to know where texts can travel: from the rows into the
operations, from there into chunks and indexes, from those into goroutines, results and the cache,
and every one of these holds only what is in `said` (`SaidInv`, `Holds`).  `SurvivalInv` is that
the keyword goroutine ends in an error only if its look-up in MySQL failed, whatever the indexes do.

`KnowledgeChunks`.  The invariant is that phrases beginning at or before the left edge of the
window are held already.  A phrase the window does not hold to its end begins behind
`End - OverlapRunes`, which is where the next window begins.

`CategoryTree`.  What an operator has read of a parent may be of a row that is deleted meanwhile;
the invariant keeps that ids below `nextId` are never drawn again, that a target's path is that
of its parent wherever the parent still exists, and, with a foreign key, that a parent of an
uncommitted insert is there.

That the list is the tree (`ListIsThePreorder`) is about strings.  `DigitsTellApart`: different ids
have different digits.  Every id in a path stands behind a slash, which no digit is; so where one
spelling begins with another and goes on with a slash, cutting both at their slashes gives the same
ids one by one (`SpelledBelow`), and conversely a path below another has a spelling that begins so
(`BelowIsSpelled`).  What sorts between two strings, the second of which begins with the first and a
slash, begins with them as well, because nothing sorts below a slash but the end of a string
(`Between`).  So a category below another comes after it, and what stands between is below it too.

`RagEval`.  `EvalInv` ties the counters of a run in progress to the items collected, a saved header
to the items saved with it (numbers are drawn in order, so no later save adds to them), and what a
reader holds between its two queries to saved headers.  `SeedsInv` is the account of a seeding that
is alone: the rows it counted before, the positive cases and the negative ones it
made add up to the rows there are, the cases it
has seen are those of the table, the rows it inserted repeat none, and when it stops for want of
knowledge every row of it has its case.

Decisions.  A message is handed over exactly when it hits one of the first five built-in rules
(`HandedOver`), because they stand before the fixed replies; more terms can only hit more rules.
The invariant is that what is typed is closed under parts of terms, without which the validator's
word for deleting an account would not be one that the rules know.

Ranking.  `RankInv` says that the merged matches are each of another chunk, at most `TopK`, and in
order; and that the reranked ones are two layers, what the reranker named (in order if `orderly`)
before what it did not, which is still in the order of the merge (`Layered`).  Three facts about
operators carry it:

* Counting what comes before an item in a total order numbers the items without gaps
  (`CountsArePlaces`), so `Arranged` is a permutation in that order (`BestFirstSorts`) and `Only` a
  subsequence (`OnlyKeepsOrder`).
* The loop of the merge has, after any number of rounds, one match for each chunk it has met, and
  that match has the best score of its chunk and is marked `hybrid` exactly when both goroutines
  found it (`MergesTo`, `StandsFor`, one round in `AddMerges`).  With equal scores either match may
  stand for its chunk: the weight is the same (`WeighedAlike`, `WeightOfMerged`).
* `normalizeRerankScore` keeps the order of scores on one side of 1 (`NormalizedKeepsOrder`).

The first match is usable exactly when `ragHasUsableKnowledge` says so, and the filter keeps order,
hence `HitEqualsMiss`.  Where the second usable match is of the lower layer, order makes the gap to
it a gap to all; where it is of the upper one, to that layer if it is in order, hence
`DirectReplyIsClear`.  The ids of the result are those of the matches unless it repeats one,
because a sequence without repetitions is no longer than the set of its ids (`IdsAtMost`).  What
the sort leaves behind the first `TopK` weighs no more than what it keeps, hence `RankingSelects`.

Recursion.  The induction rules of the TLAPS library take an operator as a parameter, which the
provers used here cannot instantiate.  Where a function is recursive (`Digits`, `Spelled`,
`MergedUpTo`), the proofs take instead the least number at which the claim would fail
(`LeastNatural`, from the well-foundedness of `<`), and show in the same way that a function with
the equation of the definition exists, so that the definition's `CHOOSE` is one
(`TablesExist`, `SpellingsExist`, `TurnsExist`).

Only model-checked, and why:

* All liveness: `EventuallySettled`, the fairness in `KeepsPromise`, `CallsEnd`,
  `CacheBecomesFresh`, `CutEnds`.  Fairness is defined with `ENABLED`, which the provers do not
  handle.
* The three claims of section 4, which do not hold.

## 6. What is not modelled

* Wording of replies, suggestions, latencies, token counts and trace details.
* Feedback and handoff records: one INSERT each, related to no other state.
* Dashboard, list of traces, quality statistics: read-only SQL over tables modelled here.
* The other feature flags, and the read of a flag after its upsert: they feed the admin page only.
* HTTP parsing, configuration, connections, `NoopStore`, scripts: wiring without a state of its own.
* The Python service: its replies are a set, its indexes upsert by chunk id.  Assumed of it: an
  upsert that answers lists only chunks of the batch that it has taken, each with an id that is not
  blank (`VectorIdMeansIndexed` rests on it).
* An empty `knowledge_id`, for which `mysql_store.go:902` deletes the chunks of all knowledge: the
  request binding requires one (`service.go:95`), and a synchronisation is the only caller without.
* Knowledge ids and versions with underscores that give two chunks one id (`service.go:1534`).
* More than one gateway process on the same stores.  The session memory and cache races are those
  of goroutines of one process; a second process would add only stale rule snapshots.
* The SQL of `LIKE` and of collations: which rows a keyword finds is a choice.

## 7. Plan

Modelled: `Routing`, `TraceLogger` and `LossyLog`, `ChatSend`, `KnowledgeAdmin`, `RagSearch`,
`RuleConfig`, `RagRanking`, `KnowledgeChunks`, `CategoryTree`, `RagEval`.  What section 6 leaves
out is left out for good; for the hazards without a property `PROJECT.json` gives the reason.

Proved: every invariant and every action property that a passing run checks, and the safety half
of the refinement.  What is left is the liveness of section 5: it stays with TLC.
