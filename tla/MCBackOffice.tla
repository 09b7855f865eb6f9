---------------------------- MODULE MCBackOffice ----------------------------
(***************************************************************************)
(* Two parts of the back office that share no state: the tree of           *)
(* categories and the evaluation of the search.  A behaviour is about one  *)
(* of them; each is small enough to share a run with the other.            *)
(***************************************************************************)
EXTENDS CategoryTree, RagEval

VARIABLE part  \* what the behaviour is about

officeVars == <<part, treeVars, evalVars>>

-----------------------------------------------------------------------------
(* Values of the constants. *)

Row(kid, published) == [kid |-> kid, published |-> published, question |-> TRUE]

\* Two texts to seed from and a draft.
SomeKnowledge == { Row("k1", TRUE), Row("k2", TRUE), Row("k3", FALSE) }

SomeNegatives == { <<"neg">> }

Case(id, expected, answer, active) ==
    [case |-> id, expected |-> expected, answer |-> answer, active |-> active]

\* A case of the operators' own, and edits of a seeded and of a negative one.
SomeRequests == { Case(<<"manual">>, "k2", TRUE, TRUE),
                  Case(AutoCase("k1"), "k1", TRUE, FALSE),
                  Case(<<"neg">>, "k1", FALSE, TRUE) }

\* Nothing, what a seeding that failed half way leaves, and cases of operators' own.
SomeTables == { <<>>,
                << Case(AutoCase("k1"), "k1", TRUE, TRUE) >>,
                << Case(<<"manual">>, "k2", TRUE, TRUE), Case(<<"neg">>, NoKid, FALSE, TRUE) >> }

\* No answer, the expected knowledge in the second place, other knowledge.
SomeAnswers == { [matched |-> FALSE, matches |-> <<>>],
                 [matched |-> TRUE, matches |-> <<"k2", "k1">>],
                 [matched |-> TRUE, matches |-> <<"k1">>] }

-----------------------------------------------------------------------------
Init ==
    \/ part = "categories" /\ TreeInit /\ EvalInit /\ cases = <<>> /\ uniqueCase
    \/ part = "evaluation" /\ TreeInit /\ foreignKey /\ EvalInit

CategoryStep == part = "categories" /\ TreeNext /\ UNCHANGED <<part, evalVars>>
EvaluationStep == part = "evaluation" /\ EvalNext /\ UNCHANGED <<part, treeVars>>

Next == CategoryStep \/ EvaluationStep

Spec == Init /\ [][Next]_officeVars
=============================================================================
