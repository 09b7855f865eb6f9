------------------------------ MODULE RagEval ------------------------------
(***************************************************************************)
(* The evaluation of the knowledge search (internal/chat/rag_eval.go and   *)
(* its part of mysql_store.go): operators keep a table of questions with   *)
(* the knowledge they should find, seed it from the published knowledge,   *)
(* run all active cases through searchRAG, save the run, list the runs.    *)
(*                                                                         *)
(* A step is one statement or one search.  Operators work at the same      *)
(* time; a call may fail with or without its effect.  Whether case_id is a *)
(* unique key is not known - the schema is not part of the repository - so *)
(* both are allowed for.                                                   *)
(***************************************************************************)
EXTENDS Integers, FiniteSets, SequencesExt

CONSTANTS
    Evaluators,     \* requests of the back office
    Knowledge,      \* rows ListKnowledge may return: [kid, published, question], see below
    NegativeCases,  \* case ids of defaultRAGEvalNegativeCases
    Requests,       \* rows operators write: [case, expected, answer, active]
    InitialCases,   \* what the table may hold before
    Found,          \* what searchRAG may return: see FoundAssumption
    Targets,        \* values of target_total
    DefaultTarget,  \* 200
    MaxTarget,      \* 500
    MaxOperations,  \* bound on the operations
    MaxEvalFailures \* bound on the calls that fail

Kids == { k.kid : k \in Knowledge }
NoKid == "none"   \* no expected knowledge

\* The case id of a seeded case is "auto_" and the knowledge id.
AutoCase(kid) == <<"auto", kid>>
AutoCases == { AutoCase(kid) : kid \in Kids }

ASSUME KnowledgeAssumption ==
    /\ IsFiniteSet(Knowledge)
    /\ \A k \in Knowledge : k.published \in BOOLEAN /\ k.question \in BOOLEAN
    /\ NoKid \notin Kids
    /\ AutoCases \cap NegativeCases = {}
ASSUME RequestsAssumption ==
    \A r \in Requests \cup UNION { Range(rows) : rows \in InitialCases } :
        r.expected \in Kids \cup {NoKid} /\ r.answer \in BOOLEAN /\ r.active \in BOOLEAN

\* The table is read in the order of the ids, and a seeding asks for 500 cases at most.
ASSUME TablesAssumption == \A rows \in InitialCases : rows \in Seq(Range(rows))
ASSUME TargetsAssumption ==
    Targets \subseteq Int /\ MaxTarget \in Nat \ {0} /\ DefaultTarget \in 1..MaxTarget

\* searchRAG matches only when the first of its matches is usable (service.go:1002-1013).
ASSUME FoundAssumption ==
    \A f \in Found : f.matches \in Seq(Kids) /\ f.matched \in BOOLEAN /\ (f.matched => f.matches # <<>>)

VARIABLES
    cases,       \* cs_rag_eval_case, in the order of the ids
    uniqueCase,  \* case_id is a unique key
    runs,        \* cs_rag_eval_run
    runItems,    \* cs_rag_eval_run_item
    at,          \* per operator: the call it is about to make
    seeding,     \* per operator: the local variables of SeedRAGEvalCases
    running,     \* per operator: those of RunRAGEvalCases
    listed,      \* per operator: the runs it has listed, without and then with their items
    evalOps,     \* operations begun
    evalFails    \* calls that failed

evalVars == <<cases, uniqueCase, runs, runItems, at, seeding, running, listed, evalOps, evalFails>>

CaseIdsIn(rows) == { rows[i].case : i \in DOMAIN rows }

AutoCount(rows) == Cardinality({ i \in DOMAIN rows : rows[i].case \in AutoCases })

NoSeeding == [target |-> 0, before |-> 0, created |-> 0, negative |-> 0, after |-> 0,
              auto |-> 0, seen |-> {}, todo |-> <<>>, alone |-> FALSE]
NoRun == [todo |-> <<>>, items |-> <<>>, total |-> 0, passed |-> 0, failed |-> 0]

Goto(o, where) == at' = [at EXCEPT ![o] = where]

\* A call fails and the handler answers with its error.
Fails(o) ==
    /\ evalFails < MaxEvalFailures
    /\ evalFails' = evalFails + 1
    /\ Goto(o, "idle")

Succeeds == UNCHANGED evalFails

Begin(o, where) ==
    /\ at[o] \in {"idle", "seeded", "saved", "listed"}
    /\ evalOps < MaxOperations
    /\ evalOps' = evalOps + 1
    /\ Goto(o, where)

\* The local variables of the calls before end with them.
Forget(o, but) ==
    /\ but = "seeding" \/ seeding' = [seeding EXCEPT ![o] = NoSeeding]
    /\ but = "running" \/ running' = [running EXCEPT ![o] = NoRun]
    /\ but = "listed" \/ listed' = [listed EXCEPT ![o] = {}]

-----------------------------------------------------------------------------
(* The table of cases. *)

\* INSERT; a unique key refuses a case id that is there.
Accepts(row) == uniqueCase => row.case \notin CaseIdsIn(cases)

\* Whoever else is seeding is no longer alone.
Disturbed(o) == [p \in Evaluators |-> IF p = o THEN seeding[p] ELSE [seeding[p] EXCEPT !.alone = FALSE]]

\* CreateRAGEvalCase and UpdateRAGEvalCase of the handlers
CreateCase(o) ==
    /\ \E row \in Requests :
        /\ Accepts(row)
        /\ cases' = Append(cases, row)
    /\ Begin(o, "idle")
    /\ seeding' = [p \in Evaluators |-> [seeding[p] EXCEPT !.alone = FALSE]]
    /\ UNCHANGED <<uniqueCase, runs, runItems, running, listed, evalFails>>

UpdateCase(o) ==
    /\ \E i \in DOMAIN cases, row \in Requests :
        /\ uniqueCase => \A j \in DOMAIN cases : cases[j].case = row.case => j = i
        /\ cases' = [cases EXCEPT ![i] = row]
    /\ Begin(o, "idle")
    /\ seeding' = [p \in Evaluators |-> [seeding[p] EXCEPT !.alone = FALSE]]
    /\ UNCHANGED <<uniqueCase, runs, runItems, running, listed, evalFails>>

-----------------------------------------------------------------------------
(* SeedRAGEvalCases *)

Clamped(asked) ==
    IF asked <= 0 THEN DefaultTarget ELSE IF asked > MaxTarget THEN MaxTarget ELSE asked

Seed(o) ==
    /\ Begin(o, "list_cases")
    /\ \E asked \in Targets :
        seeding' = [seeding EXCEPT ![o] = [NoSeeding EXCEPT !.target = Clamped(asked), !.alone = TRUE]]
    /\ Forget(o, "seeding")
    /\ UNCHANGED <<cases, uniqueCase, runs, runItems, evalFails>>

\* ListRAGEvalCases, and what is counted of them.
ListCases(o) ==
    /\ at[o] = "list_cases"
    /\ \/ /\ seeding' = [seeding EXCEPT ![o] =
                [@ EXCEPT !.before = Len(cases), !.after = Len(cases),
                          !.auto = AutoCount(cases), !.seen = CaseIdsIn(cases), !.alone = TRUE]]
          /\ Goto(o, IF AutoCount(cases) < seeding[o].target THEN "list_knowledge" ELSE "negatives")
          /\ Succeeds
       \/ Fails(o) /\ seeding' = [seeding EXCEPT ![o] = NoSeeding]
    /\ UNCHANGED <<cases, uniqueCase, runs, runItems, running, listed, evalOps>>

\* ListKnowledge: some of the rows there can be, in some order.
ListKnowledge(o) ==
    /\ at[o] = "list_knowledge"
    /\ \/ /\ \E list \in UNION { SetToSeqs(some) : some \in SUBSET Knowledge } :
                seeding' = [seeding EXCEPT ![o].todo = list]
          /\ Goto(o, "positives")
          /\ Succeeds
       \/ Fails(o) /\ seeding' = [seeding EXCEPT ![o] = NoSeeding]
    /\ UNCHANGED <<cases, uniqueCase, runs, runItems, running, listed, evalOps>>

\* CreateRAGEvalCase of a seeding: the row is inserted and counted; an error, also that of a
\* row inserted meanwhile by somebody else, ends the seeding.
InsertCase(o, row, counted) ==
    \/ /\ Accepts(row)
       /\ cases' = Append(cases, row)
       /\ \/ seeding' = [Disturbed(o) EXCEPT ![o] = counted] /\ Succeeds /\ UNCHANGED at
          \/ seeding' = [Disturbed(o) EXCEPT ![o] = NoSeeding] /\ Fails(o)
    \/ /\ seeding' = [seeding EXCEPT ![o] = NoSeeding]
       /\ UNCHANGED cases
       /\ Fails(o) \/ (~Accepts(row) /\ Goto(o, "idle") /\ Succeeds)

\* Mutant: the created case is not remembered in the count of the auto cases.
Positive_NotCounted(s, kid) ==
    [s EXCEPT !.seen = @ \cup {AutoCase(kid)}, !.created = @ + 1, !.after = @ + 1]

Positive(s, kid) ==
    [s EXCEPT !.seen = @ \cup {AutoCase(kid)}, !.auto = @ + 1, !.created = @ + 1, !.after = @ + 1]

\* Drafts and rows without a question are passed over.
Seedable(s) == { i \in DOMAIN s.todo : s.todo[i].published /\ s.todo[i].question }

\* One knowledge row after the other until there are enough auto cases.
SeedPositive(o) ==
    LET s == seeding[o]
        fresh == { i \in Seedable(s) : AutoCase(s.todo[i].kid) \notin s.seen }
    IN  /\ at[o] = "positives"
        /\ \/ /\ s.auto < s.target
              /\ \E i \in fresh :
                    /\ \A j \in fresh : i <= j
                    /\ InsertCase(o, [case |-> AutoCase(s.todo[i].kid), expected |-> s.todo[i].kid,
                                      answer |-> TRUE, active |-> TRUE], Positive(s, s.todo[i].kid))
           \/ /\ s.auto >= s.target \/ fresh = {}
              /\ Goto(o, "negatives")
              /\ UNCHANGED <<cases, seeding, evalFails>>
        /\ UNCHANGED <<uniqueCase, runs, runItems, running, listed, evalOps>>

Negative(s, c) == [s EXCEPT !.seen = @ \cup {c}, !.negative = @ + 1, !.after = @ + 1]

SeedNegative(o) ==
    LET s == seeding[o]
    IN  /\ at[o] = "negatives"
        /\ \/ \E c \in NegativeCases \ s.seen :
                InsertCase(o, [case |-> c, expected |-> NoKid, answer |-> FALSE, active |-> TRUE],
                       Negative(s, c))
           \/ /\ NegativeCases \subseteq s.seen
              /\ Goto(o, "seeded")
              /\ UNCHANGED <<cases, seeding, evalFails>>
        /\ UNCHANGED <<uniqueCase, runs, runItems, running, listed, evalOps>>

-----------------------------------------------------------------------------
(* RunRAGEvalCases *)

\* Mutant: only what should be answered is looked at.
Passes_AnswersOnly(row, found) ==
    row.answer => found.matched /\ (row.expected = NoKid \/ row.expected \in Range(found.matches))

\* evaluateRAGCase
Passes(row, found) ==
    /\ row.answer = found.matched
    /\ row.answer => row.expected = NoKid \/ row.expected \in Range(found.matches)

\* ListRAGEvalCases; the cases that are not active are passed over.
ActiveCases == [i \in { j \in DOMAIN cases : cases[j].active } |-> cases[i]]

Run(o) ==
    /\ Begin(o, "run_cases")
    /\ running' = [running EXCEPT ![o] = [NoRun EXCEPT !.todo = ActiveCases]]
    /\ Forget(o, "running")
    /\ UNCHANGED <<cases, uniqueCase, runs, runItems, evalFails>>

\* searchRAG of the next case, and its evaluation; an error of the search ends the run.
RunCase(o) ==
    LET r == running[o]
        left == DOMAIN r.todo
    IN  /\ at[o] = "run_cases"
        /\ left # {}
        /\ \/ \E next \in left, found \in Found :
                LET pass == Passes(r.todo[next], found)
                IN  /\ \A i \in left : next <= i
                    /\ running' = [running EXCEPT ![o] =
                            [todo |-> Restrict(r.todo, left \ {next}),
                             items |-> Append(r.items, [row |-> r.todo[next], found |-> found, passed |-> pass]),
                             total |-> r.total + 1,
                             passed |-> IF pass THEN r.passed + 1 ELSE r.passed,
                             failed |-> IF pass THEN r.failed ELSE r.failed + 1]]
                    /\ Succeeds /\ UNCHANGED at
           \/ Fails(o) /\ running' = [running EXCEPT ![o] = NoRun]
        /\ UNCHANGED <<cases, uniqueCase, runs, runItems, seeding, listed, evalOps>>

\* Mutant: the run is inserted before its transaction begins.
SaveRun_HeaderFirst(o) ==
    LET r == running[o]
        id == Cardinality(runs) + 1
        header == [run |-> id, total |-> r.total, passed |-> r.passed, failed |-> r.failed]
        rows == { [run |-> id, place |-> i, item |-> r.items[i]] : i \in DOMAIN r.items }
    IN  /\ at[o] = "run_cases"
        /\ DOMAIN r.todo = {}
        /\ runs' = runs \cup {header}
        /\ \/ runItems' = runItems \cup rows /\ Succeeds /\ Goto(o, "saved")
           \/ UNCHANGED runItems /\ Fails(o)
        /\ running' = [running EXCEPT ![o] = NoRun]
        /\ UNCHANGED <<cases, uniqueCase, seeding, listed, evalOps>>

\* SaveRAGEvalRun: the run and its items in one transaction.
SaveRun(o) ==
    LET r == running[o]
        id == Cardinality(runs) + 1
        header == [run |-> id, total |-> r.total, passed |-> r.passed, failed |-> r.failed]
        rows == { [run |-> id, place |-> i, item |-> r.items[i]] : i \in DOMAIN r.items }
    IN  /\ at[o] = "run_cases"
        /\ DOMAIN r.todo = {}
        /\ \/ /\ runs' = runs \cup {header}
              /\ runItems' = runItems \cup rows
              /\ (Succeeds /\ Goto(o, "saved")) \/ Fails(o)
           \/ UNCHANGED <<runs, runItems>> /\ Fails(o)
        /\ running' = [running EXCEPT ![o] = NoRun]
        /\ UNCHANGED <<cases, uniqueCase, seeding, listed, evalOps>>

\* ListRAGEvalRuns: the runs, then in a second query their items.
ListRuns(o) ==
    /\ Begin(o, "list_items")
    /\ listed' = [listed EXCEPT ![o] = { [header |-> h, items |-> {}] : h \in runs }]
    /\ Forget(o, "listed")
    /\ UNCHANGED <<cases, uniqueCase, runs, runItems, evalFails>>

ListRunItems(o) ==
    /\ at[o] = "list_items"
    /\ \/ /\ listed' = [listed EXCEPT ![o] =
                { [l EXCEPT !.items = { i \in runItems : i.run = l.header.run }] : l \in @ }]
          /\ Goto(o, "listed")
          /\ Succeeds
       \/ Fails(o) /\ listed' = [listed EXCEPT ![o] = {}]
    /\ UNCHANGED <<cases, uniqueCase, runs, runItems, seeding, running, evalOps>>

EvalInit ==
    /\ cases \in InitialCases
    /\ uniqueCase \in BOOLEAN
    /\ runs = {}
    /\ runItems = {}
    /\ at = [o \in Evaluators |-> "idle"]
    /\ seeding = [o \in Evaluators |-> NoSeeding]
    /\ running = [o \in Evaluators |-> NoRun]
    /\ listed = [o \in Evaluators |-> {}]
    /\ evalOps = 0
    /\ evalFails = 0

EvalNext ==
    \E o \in Evaluators :
        \/ CreateCase(o) \/ UpdateCase(o)
        \/ Seed(o) \/ ListCases(o) \/ ListKnowledge(o) \/ SeedPositive(o) \/ SeedNegative(o)
        \/ Run(o) \/ RunCase(o) \/ SaveRun(o)
        \/ ListRuns(o) \/ ListRunItems(o)

EvalSpec == EvalInit /\ [][EvalNext]_evalVars

-----------------------------------------------------------------------------
(* summarizeRAGEvalQuality *)

Count(o, Test(_)) == Cardinality({ i \in DOMAIN running[o].items : Test(running[o].items[i]) })

\* ShouldAnswerMissCount + ShouldNotAnswerHitCount + MissingCitationCount
MajorUnsafe(o) ==
    Count(o, LAMBDA i : i.row.answer /\ ~i.found.matched)
    + Count(o, LAMBDA i : ~i.row.answer /\ i.found.matched)
    + Count(o, LAMBDA i : i.row.answer /\ i.found.matched /\ i.found.matches = <<>>)

ExpectedCases(o) == Count(o, LAMBDA i : i.row.expected # NoKid)
Top3Hits(o) == Count(o, LAMBDA i : i.row.expected # NoKid /\ i.row.expected \in Range(i.found.matches))

-----------------------------------------------------------------------------
(* Properties. *)

\* A seeding that nobody disturbed tells the truth, whatever the table held before, also when
\* an earlier one had failed half way: the totals are those of the table, every negative case
\* is there, no more auto cases were made than asked for, and fewer only when the knowledge
\* gave no more (rag_eval.go:125-199).
SeedReportsTable ==
    \A o \in Evaluators :
        LET s == seeding[o]
            new == { i \in DOMAIN cases : i > s.before }
        IN  at[o] = "seeded" /\ s.alone =>
              /\ s.after = Len(cases) /\ s.after = s.before + s.created + s.negative
              /\ NegativeCases \subseteq CaseIdsIn(cases)
              /\ AutoCount(cases) <= MaxTarget \/ s.created = 0
              /\ s.created > 0 => AutoCount(cases) <= s.target
              /\ AutoCount(cases) < s.target =>
                    { AutoCase(s.todo[i].kid) : i \in Seedable(s) } \subseteq CaseIdsIn(cases)
              /\ \A i \in new, j \in DOMAIN cases : cases[i].case = cases[j].case => i = j

\* What a reader of the runs sees adds up, although it reads runs and items in two queries
\* while others save theirs: as many items as the total says, as many of them passed as
\* counted, and no others (mysql_store.go:1199-1318).
ListedRunsAreWhole ==
    \A o \in Evaluators : at[o] = "listed" =>
        \A l \in listed[o] :
            /\ Cardinality(l.items) = l.header.total
            /\ Cardinality({ i \in l.items : i.item.passed }) = l.header.passed
            /\ l.header.passed + l.header.failed = l.header.total

\* The two views of a run agree: what the summary calls unsafe has failed, and a failure is
\* unsafe or has missed the expected knowledge; evaluateRAGCase and summarizeRAGEvalQuality
\* decide this apart from each other (rag_eval.go:226-302).
QualityExplainsFailures ==
    \A o \in Evaluators :
        /\ MajorUnsafe(o) <= running[o].failed
        /\ running[o].failed <= MajorUnsafe(o) + ExpectedCases(o) - Top3Hits(o)
=============================================================================
