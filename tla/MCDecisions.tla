---------------------------- MODULE MCDecisions ----------------------------
(***************************************************************************)
(* The parts of the program that compute without touching shared state,    *)
(* over bounded inputs.  A behaviour is about one of three:                *)
(*   - a message that a user types term by term, with the routing          *)
(*     decisions after each term;                                          *)
(*   - the matches of one search on their way to a reply (RagRanking);     *)
(*   - a knowledge text that is cut into chunks (KnowledgeChunks).         *)
(***************************************************************************)
EXTENDS RagRanking, KnowledgeChunks

CONSTANTS
    MaxTerms,  \* bound on the terms of a typed message
    MaxRunes   \* bound on the runes of a knowledge's content

VARIABLES
    about,   \* what the behaviour is about
    message  \* the message so far

decisionVars == <<about, message, rankVars, chunkVars>>

-----------------------------------------------------------------------------
(* Typing. *)

\* The smallest text with these terms contains their parts too.
WithParts(words) == words \cup { p[1] : p \in { q \in PartOf : q[2] \in words } }

\* A term is typed as it is, or broken up by blanks or punctuation.
Type(term) ==
    \E broken \in BOOLEAN :
        message' = [words |-> IF broken THEN message.words ELSE WithParts(message.words \cup {term}),
                    folded |-> WithParts(message.folded \cup {term})]

Blank == [words |-> {}, folded |-> {}]

Typing ==
    /\ Cardinality(message.folded) < MaxTerms
    /\ \E term \in Terms \ message.folded : Type(term)

-----------------------------------------------------------------------------
(* Values of the constants. *)

About(row, passage, inQuestion, inContent, inRow) ==
    [row |-> row, question |-> inQuestion > 0, passage |-> passage, inQuestion |-> inQuestion,
     inContent |-> inContent, inRow |-> inRow, exact |-> inQuestion > 0]

\* A good answer, a poor one whose row has no question and a word in its content only, and what
\* only an index still has: with its text or without.
SomeFound == << About(TRUE, "long", 2, 1, 0), About(TRUE, "long", 0, 0, 1),
                About(FALSE, "short", 0, 1, 0), About(FALSE, "none", 0, 0, 0) >>

\* A plain message, and one whose words the built-in rules see only without the blanks.
SomeMessages == { Blank, [words |-> {}, folded |-> {"rengong"}] }

\* Every pattern of ink and blanks, the question in two runes.
Written(n) == UNION { [1..k -> BOOLEAN] : k \in 0..n }
SomeTexts == { NormalizeKnowledgeText(q, c) : q \in Written(2), c \in Written(MaxRunes) }

-----------------------------------------------------------------------------
IdleMessage == message = Blank
IdleSearch ==
    /\ vectorMatches = <<>> /\ keywordMatches = <<>> /\ terms = FALSE
    /\ matches = <<>> /\ orderly = TRUE /\ step = "idle" /\ reply = "none"
IdleText == text = <<>> /\ begin = 0 /\ chunks = <<>> /\ cutting = FALSE

Init ==
    \/ about = "message" /\ IdleMessage /\ IdleSearch /\ IdleText
    \/ about = "search" /\ IdleMessage /\ RankInit /\ IdleText
    \/ about = "text" /\ IdleMessage /\ IdleSearch /\ CutInit

TypeTerm == about = "message" /\ Typing /\ UNCHANGED <<about, rankVars, chunkVars>>
SearchStep == about = "search" /\ RankNext /\ UNCHANGED <<about, message, chunkVars>>
CutStep == about = "text" /\ Cut /\ UNCHANGED <<about, message, rankVars>>

Next == TypeTerm \/ SearchStep \/ CutStep

Spec == Init /\ [][Next]_decisionVars /\ WF_decisionVars(CutStep)

-----------------------------------------------------------------------------
\* The three lists of risky words agree where it matters: whatever the validator would call
\* sensitive is handed to a person by the first built-in rule the message hits, so a fixed
\* reply can never shadow a handoff (risk.go:23-66 against validator.go:73-88).
SensitiveIsHandedOff ==
    HasSensitiveUserIntent(message) => RiskMatched(message) /\ RiskResult(message).handoff

\* More words never take a handoff back: the order of the built-in list keeps a message
\* that asks for a person and for something else with the person.
HandoffIsMonotone ==
    [][RiskMatched(message) /\ RiskResult(message).handoff
       => RiskMatched(message)' /\ RiskResult(message)'.handoff]_message
=============================================================================
