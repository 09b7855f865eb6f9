---------------------------- MODULE MCRagSearch ----------------------------
(***************************************************************************)
(* Small instances of RagSearch for TLC.                                   *)
(***************************************************************************)
EXTENDS RagSearch, TLC

CONSTANTS a1, s1, s2, q1

NewDoc(kid, content, status) ==
    [kid |-> kid, content |-> content, version |-> "v1", status |-> status]

\* A text with its replacement, the same next to another knowledge id (a row may take either:
\* knowledge_id can be edited), and a text next to its draft.
EditedDocs == { NewDoc("k1", "old", "published"), NewDoc("k1", "new", "published") }
TwoKidDocs == EditedDocs \cup { NewDoc("k2", "other", "published") }
DraftDocs == { NewDoc("k1", "old", "published"), NewDoc("k1", "old", "draft") }
ShortenedDocs == { NewDoc("k1", "long", "published"), NewDoc("k1", "short", "published") }

OnePiece == [c \in {"old", "new"} |-> 1]
TwoKidPieces == [c \in {"old", "new", "other"} |-> 1]
OldPiece == [c \in {"old"} |-> 1]
LongPieces == [c \in {"long", "short"} |-> IF c = "long" THEN 2 ELSE 1]
=============================================================================
