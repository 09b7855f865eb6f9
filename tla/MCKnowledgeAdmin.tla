-------------------------- MODULE MCKnowledgeAdmin --------------------------
(***************************************************************************)
(* Small instances of KnowledgeAdmin for TLC.                              *)
(***************************************************************************)
EXTENDS KnowledgeAdmin, TLC

CONSTANTS a1, a2  \* operators

NewDoc(kid, content, version, status) ==
    [kid |-> kid, content |-> content, version |-> version, status |-> status]

\* A text of one chunk and a text of two, under the same and under another version label,
\* as a draft, and under another knowledge id.
SomeDocs ==
    { NewDoc("q1", "long", "v1", "published"),
      NewDoc("q1", "short", "v1", "published"),
      NewDoc("q1", "long", "v1", "draft"),
      NewDoc("q2", "short", "v2", "published") }

SomePieces == [c \in {"short", "long"} |-> IF c = "short" THEN 1 ELSE 2]

AdminSymmetry == Permutations(Admins)
=============================================================================
