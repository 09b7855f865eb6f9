-------------------------- MODULE KnowledgeChunks --------------------------
(***************************************************************************)
(* buildKnowledgeChunks (internal/chat/service.go): a knowledge text is    *)
(* cut into overlapping windows, from which the surrounding blanks are     *)
(* trimmed.  A text is abstracted to which of its runes are ink (TRUE) and *)
(* which blank, a chunk to the positions of the text it holds.             *)
(*                                                                         *)
(* KnowledgeAdmin takes the number of chunks of a text as its constant     *)
(* Pieces; this module is about what is in them.                           *)
(***************************************************************************)
EXTENDS Integers, Sequences

CONSTANTS
    MaxChunkRunes,  \* 500
    OverlapRunes,   \* 80
    Texts           \* the normalised texts

ASSUME ChunkAssumption ==
    /\ MaxChunkRunes \in Nat
    /\ OverlapRunes \in Nat
    /\ OverlapRunes < MaxChunkRunes
ASSUME TextsAssumption == Texts \subseteq Seq(BOOLEAN)

VARIABLES
    text,    \* the normalised text
    begin,   \* runes before the current window (start in the code)
    chunks,  \* the chunks so far
    cutting  \* the loop has not ended

chunkVars == <<text, begin, chunks, cutting>>

-----------------------------------------------------------------------------
(* normalizeKnowledgeText *)

InkOf(s) == { i \in DOMAIN s : s[i] }

\* strings.TrimSpace
TrimSpace(s) ==
    IF InkOf(s) = {} THEN <<>>
    ELSE SubSeq(s, CHOOSE i \in InkOf(s) : \A j \in InkOf(s) : i <= j,
                   CHOOSE i \in InkOf(s) : \A j \in InkOf(s) : j <= i)

\* Three runes stand before a question and before a content, a line break between the two.
Label == <<TRUE, TRUE, TRUE>>
LineBreak == <<FALSE>>

NormalizeKnowledgeText(question, content) ==
    IF TrimSpace(question) = <<>> THEN Label \o TrimSpace(content)
    ELSE IF TrimSpace(content) = <<>> THEN Label \o TrimSpace(question)
    ELSE Label \o TrimSpace(question) \o LineBreak \o Label \o TrimSpace(content)

-----------------------------------------------------------------------------
(* The loop. *)

End == IF begin + MaxChunkRunes > Len(text) THEN Len(text) ELSE begin + MaxChunkRunes

\* The runes begin+1 .. End of the text without the blanks around them.
Window ==
    { i \in begin+1 .. End :
        /\ \E j \in begin+1 .. i : text[j]
        /\ \E j \in i .. End : text[j] }

\* Mutant: the windows do not overlap.
NextBegin_NoOverlap == End

NextBegin == IF End - OverlapRunes < 0 THEN End ELSE End - OverlapRunes

\* Mutant: a blank window is skipped without moving on.
Cut_BlankStays ==
    /\ cutting
    /\ chunks' = IF Window = {} THEN chunks ELSE Append(chunks, Window)
    /\ IF End = Len(text)
       THEN cutting' = FALSE /\ UNCHANGED begin
       ELSE begin' = (IF Window = {} THEN begin ELSE NextBegin) /\ UNCHANGED cutting
    /\ UNCHANGED text

\* One round: the window becomes a chunk unless it is blank, and the last window ends the loop.
Cut ==
    /\ cutting
    /\ chunks' = IF Window = {} THEN chunks ELSE Append(chunks, Window)
    /\ IF End = Len(text)
       THEN cutting' = FALSE /\ UNCHANGED begin
       ELSE begin' = NextBegin /\ UNCHANGED cutting
    /\ UNCHANGED text

\* An empty text has no chunks.
CutInit ==
    /\ text \in Texts
    /\ begin = 0
    /\ chunks = <<>>
    /\ cutting = (text # <<>>)

CutSpec == CutInit /\ [][Cut]_chunkVars /\ WF_chunkVars(Cut)

-----------------------------------------------------------------------------
(* Properties. *)

\* Nothing that fits the overlap is torn apart: every stretch of at most OverlapRunes + 1
\* runes that begins and ends in ink is whole in some chunk, whatever the blanks around it and
\* wherever the windows fall (the step back of service.go:1544 against the trimming of 1530).
PhrasesWhole ==
    ~cutting =>
        \A p, q \in DOMAIN text :
            p <= q /\ q - p <= OverlapRunes /\ text[p] /\ text[q]
              => \E c \in DOMAIN chunks : p..q \subseteq chunks[c]

\* The loop ends: the step back never takes it to a window it has been at (service.go:1544).
CutEnds == <>~cutting
=============================================================================
