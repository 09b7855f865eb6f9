-------------------------- MODULE DecisionTheorems --------------------------
(***************************************************************************)
(* Theorems about the parts that compute without shared state.             *)
(*                                                                         *)
(* The built-in rules: whatever a user types, term by term, a sensitive    *)
(* message is handed to a person and more words take no handoff back.  A   *)
(* message is handed over exactly when it hits one of the first five rules *)
(* (HandedOver); the invariant is that what is typed is a Message, that is *)
(* a set of terms with all of their parts.                                 *)
(*                                                                         *)
(* The chunks: for every text, window length and shorter overlap, they     *)
(* hold every phrase that fits the overlap.  The invariant: the phrases    *)
(* that begin before the current window are held already; one that the     *)
(* current window does not hold to its end begins within the next.         *)
(*                                                                         *)
(* The ranking: for any chunks, scores and answers of the reranker, it     *)
(* keeps the best of what was found, and what Send does with the result is *)
(* right.  The invariant (RankInv) is that the merged matches are each of  *)
(* another chunk and in order, and that later the reranked matches come    *)
(* first, the others are in order, and so are the reranked ones if the     *)
(* reranker's answer was.  The loop that merges keeps, after each of its   *)
(* rounds, one match for each chunk it has met, that stands for all of     *)
(* them (MergesTo, StandsFor); that this holds of the last round is shown  *)
(* by taking the least round at which it would fail.  Sorting and          *)
(* filtering give each item a place by counting what comes before it       *)
(* (CountsArePlaces).                                                      *)
(***************************************************************************)
EXTENDS MCDecisions, FiniteSetTheorems, FunctionTheorems, TLAPS

-----------------------------------------------------------------------------
(* The built-in rules. *)

\* The first five rules are the handoffs.
LEMMA FiveHandoffs ==
    /\ DOMAIN RiskRules = 1..9
    /\ \A i \in 1..5 : RiskRules[i].handoff = TRUE
    /\ \A i \in 6..9 : RiskRules[i].handoff = FALSE
    /\ RiskRules[2].terms = RefundTerms
    /\ RiskRules[3].terms = ComplaintTerms
    /\ RiskRules[4].terms = AccountTerms
    /\ RiskRules[5].terms = PaymentTerms
<1>1. DOMAIN RiskRules = 1..9
  BY DEF RiskRules
<1>2. /\ RiskRules[2].terms = RefundTerms
      /\ RiskRules[3].terms = ComplaintTerms
      /\ RiskRules[4].terms = AccountTerms
      /\ RiskRules[5].terms = PaymentTerms
  BY DEF RiskRules
<1>3. /\ RiskRules[1].handoff = TRUE /\ RiskRules[2].handoff = TRUE /\ RiskRules[3].handoff = TRUE
      /\ RiskRules[4].handoff = TRUE /\ RiskRules[5].handoff = TRUE
  BY DEF RiskRules
<1>4. /\ RiskRules[6].handoff = FALSE /\ RiskRules[7].handoff = FALSE
      /\ RiskRules[8].handoff = FALSE /\ RiskRules[9].handoff = FALSE
  BY DEF RiskRules
<1>5. /\ \A i \in 1..5 : i = 1 \/ i = 2 \/ i = 3 \/ i = 4 \/ i = 5
      /\ \A i \in 6..9 : i = 6 \/ i = 7 \/ i = 8 \/ i = 9
  OBVIOUS
<1> QED
  BY <1>1, <1>2, <1>3, <1>4, <1>5

\* The first hit is one.
LEMMA FirstHitIsFirst ==
    ASSUME NEW rules, NEW m, \E i \in DOMAIN rules : IsFirstHit(i, rules, m)
    PROVE  \E i \in DOMAIN rules : IsFirstHit(i, rules, m) /\ FirstHit(rules, m) = rules[i]
  BY DEF FirstHit

\* Who hits any of the handoffs is handed over: they stand before the fixed replies.
LEMMA HandedOver ==
    ASSUME NEW m
    PROVE  (RiskMatched(m) /\ RiskResult(m).handoff) <=> \E i \in 1..5 : i \in Hits(RiskRules, m)
<1> DEFINE hits == Hits(RiskRules, m)
<1>1. hits \subseteq 1..9
  BY FiveHandoffs DEF Hits
<1>2. CASE hits = {}
  BY <1>2 DEF RiskMatched
<1>3. CASE hits # {}
  <2>1. \/ 1 \in hits \/ 2 \in hits \/ 3 \in hits \/ 4 \in hits \/ 5 \in hits
        \/ 6 \in hits \/ 7 \in hits \/ 8 \in hits \/ 9 \in hits
    BY <1>1, <1>3
  <2> HIDE DEF hits
  <2>2. \E i \in hits : \A j \in hits : i <= j
    BY <1>1, <2>1
  <2> USE DEF hits
  <2>3. PICK first \in hits : FirstHit(RiskRules, m) = RiskRules[first] /\ \A j \in hits : first <= j
    <3>1. \E i \in DOMAIN RiskRules : IsFirstHit(i, RiskRules, m)
      BY <2>2, Zenon DEF IsFirstHit, Hits
    <3>2. PICK i \in DOMAIN RiskRules : IsFirstHit(i, RiskRules, m) /\ FirstHit(RiskRules, m) = RiskRules[i]
      BY <3>1, FirstHitIsFirst
    <3> QED
      BY <3>2, Zenon DEF IsFirstHit
  <2>4. RiskMatched(m) /\ RiskResult(m).handoff = RiskRules[first].handoff
    BY <1>3, <2>3 DEF RiskMatched, RiskResult
  <2>5. first \in 1..9
    BY <1>1
  <2> HIDE DEF hits
  <2>6. CASE first \in 1..5
    BY <2>4, <2>6, FiveHandoffs DEF hits
  <2>7. CASE first \in 6..9
    <3>1. RiskResult(m).handoff = FALSE
      BY <2>4, <2>7, FiveHandoffs
    <3>2. \A i \in 1..5 : i \notin hits
      BY <2>3, <2>7
    <3> QED
      BY <3>1, <3>2 DEF hits
  <2> QED
    BY <2>5, <2>6, <2>7
<1> QED
  BY <1>2, <1>3

\* Every sensitive term is one of a handoff's.
LEMMA SensitiveHits ==
    ASSUME NEW m \in Message, HasSensitiveUserIntent(m)
    PROVE  \E i \in 1..5 : i \in Hits(RiskRules, m)
<1>1. PICK t \in m.words : t \in SensitiveTerms
  BY DEF HasSensitiveUserIntent, ContainsAny
<1>2. "zhuxiaozhanghao" \in m.words => "zhuxiao" \in m.words
  BY DEF Message, Closed, PartOf
<1>3. PICK u \in m.words : u \in RefundTerms \cup ComplaintTerms \cup AccountTerms \cup PaymentTerms
  BY <1>1, <1>2 DEF SensitiveTerms, RefundTerms, ComplaintTerms, AccountTerms, PaymentTerms
<1> QED
  BY <1>3, FiveHandoffs DEF Hits, ContainsAny

-----------------------------------------------------------------------------
(* What is typed. *)

\* No part of a term has a part itself, so the parts need to be added once only.
LEMMA PartsAreClosed ==
    ASSUME NEW words \in SUBSET Terms
    PROVE  Closed(WithParts(words)) /\ WithParts(words) \in SUBSET Terms /\ words \subseteq WithParts(words)
<1>1. \A p, q \in PartOf : p[1] # q[2]
  BY DEF PartOf
<1>2. \A p \in PartOf : p[1] \in Terms
  BY DEF PartOf, Terms, AccountTerms, RiskyTerms, ViolationTerms, DeviceTerms
<1>3. Closed(WithParts(words))
  BY <1>1 DEF Closed, WithParts
<1> QED
  BY <1>2, <1>3 DEF WithParts

TypedInv == message \in Message

\* A term that is typed adds words.
LEMMA TypingStep ==
    ASSUME TypedInv, Typing
    PROVE  TypedInv' /\ message.words \subseteq message'.words
<1>1. PICK term \in Terms, broken \in BOOLEAN :
        message' = [words |-> IF broken THEN message.words ELSE WithParts(message.words \cup {term}),
                    folded |-> WithParts(message.folded \cup {term})]
  BY Zenon DEF Typing, Type
<1>2. /\ message.words \in SUBSET Terms /\ message.folded \in SUBSET Terms
      /\ Closed(message.words) /\ message.words \subseteq message.folded
  BY DEF TypedInv, Message
<1> DEFINE words == message.words \cup {term}
           folded == message.folded \cup {term}
<1>3. words \in SUBSET Terms /\ folded \in SUBSET Terms
  BY <1>2
<1>4. /\ Closed(WithParts(words)) /\ WithParts(words) \in SUBSET Terms /\ words \subseteq WithParts(words)
      /\ Closed(WithParts(folded)) /\ WithParts(folded) \in SUBSET Terms /\ folded \subseteq WithParts(folded)
  BY <1>3, PartsAreClosed
<1>5. WithParts(words) \subseteq WithParts(folded)
  BY <1>2 DEF WithParts
<1>6. /\ message'.words \in SUBSET Terms /\ message'.folded \in SUBSET Terms
      /\ Closed(message'.words) /\ Closed(message'.folded)
      /\ message'.words \subseteq message'.folded /\ message.words \subseteq message'.words
      /\ message' = [words |-> message'.words, folded |-> message'.folded]
  <2> HIDE DEF words, folded
  <2>1. message' = [words |-> IF broken THEN message.words ELSE WithParts(words), folded |-> WithParts(folded)]
    BY <1>1 DEF words, folded
  <2>2. message.words \subseteq words /\ message.words \subseteq folded
    BY <1>2 DEF words, folded
  <2>3. CASE broken
    BY <1>2, <1>4, <2>1, <2>2, <2>3
  <2>4. CASE ~broken
    BY <1>2, <1>4, <1>5, <2>1, <2>2, <2>4
  <2> QED
    BY <2>3, <2>4
<1>7. message' \in [words : SUBSET Terms, folded : SUBSET Terms]
  BY <1>6
<1> QED
  BY <1>6, <1>7 DEF TypedInv, Message

LEMMA TypedInvHolds == Spec => []TypedInv
<1>1. Init => TypedInv
  BY DEF Init, IdleMessage, Blank, TypedInv, Message, Closed
<1>2. TypedInv /\ [Next]_decisionVars => TypedInv'
  <2> SUFFICES ASSUME TypedInv, [Next]_decisionVars PROVE TypedInv'
    OBVIOUS
  <2>1. CASE Typing
    BY <2>1, TypingStep
  <2>2. CASE UNCHANGED message
    BY <2>2 DEF TypedInv
  <2> QED
    BY <2>1, <2>2, Zenon DEF Next, TypeTerm, SearchStep, CutStep, decisionVars
<1> QED
  BY <1>1, <1>2, PTL DEF Spec

\* What the validator would call sensitive is handed to a person (risk.go:23-66 against
\* validator.go:73-88).
THEOREM SensitiveMessagesAreHandedOff == Spec => []SensitiveIsHandedOff
<1>1. TypedInv => SensitiveIsHandedOff
  BY SensitiveHits, HandedOver DEF TypedInv, SensitiveIsHandedOff
<1> QED
  BY <1>1, TypedInvHolds, PTL

\* More words never take a handoff back (RiskRouter.Match, risk.go:23-66).
THEOREM HandoffsStay == Spec => HandoffIsMonotone
<1>1. ASSUME TypedInv, [Next]_decisionVars, ~UNCHANGED message,
             RiskMatched(message), RiskResult(message).handoff
      PROVE  RiskMatched(message)' /\ RiskResult(message)'.handoff
  <2>1. Typing
    BY <1>1, Zenon DEF Next, TypeTerm, SearchStep, CutStep, decisionVars
  <2>2. message.words \subseteq message'.words
    BY <1>1, <2>1, TypingStep
  <2>3. Hits(RiskRules, message) \subseteq Hits(RiskRules, message')
    BY <2>2 DEF Hits, ContainsAny
  <2>4. \E i \in 1..5 : i \in Hits(RiskRules, message')
    BY <1>1, <2>3, HandedOver
  <2>5. RiskMatched(message') /\ RiskResult(message').handoff
    BY <2>4, HandedOver
  <2> QED
    BY <2>5
<1>2. TypedInv /\ [Next]_decisionVars =>
        [RiskMatched(message) /\ RiskResult(message).handoff
         => RiskMatched(message)' /\ RiskResult(message)'.handoff]_message
  BY <1>1
<1> QED
  BY <1>2, TypedInvHolds, PTL DEF Spec, HandoffIsMonotone

-----------------------------------------------------------------------------
(* The chunks. *)

CutTypes ==
    /\ text \in Seq(BOOLEAN)
    /\ begin \in Nat
    /\ chunks \in Seq(SUBSET Int)
    /\ cutting \in BOOLEAN

IsPhrase(p, q) == p <= q /\ q - p <= OverlapRunes /\ text[p] /\ text[q]

Held(p, q) == \E c \in DOMAIN chunks : p..q \subseteq chunks[c]

\* While the loop runs, what begins at or before the window's left edge is held.
HeldSoFar ==
    \A p, q \in DOMAIN text :
        IsPhrase(p, q) /\ (cutting => p <= begin) => Held(p, q)

CutInv == CutTypes /\ (cutting => begin < Len(text)) /\ HeldSoFar

-----------------------------------------------------------------------------
\* A phrase within the window is within what is left of it after trimming.
LEMMA WindowHoldsPhrases ==
    ASSUME CutTypes, NEW p \in DOMAIN text, NEW q \in DOMAIN text,
           text[p], text[q], begin < p, q <= End, p <= q
    PROVE  p..q \subseteq Window
<1>1. End \in Int
  BY ChunkAssumption DEF CutTypes, End
<1>2. p \in Int /\ q \in Int /\ begin \in Int
  BY DEF CutTypes
<1>3. SUFFICES ASSUME NEW i \in p..q PROVE i \in Window
  OBVIOUS
<1>4. i \in begin+1 .. End /\ p \in begin+1 .. i /\ q \in i .. End
  BY <1>1, <1>2
<1> QED
  BY <1>4 DEF Window

\* Where the next window begins.
LEMMA NextWindow ==
    ASSUME CutTypes, begin < Len(text)
    PROVE  /\ End \in Nat /\ End <= Len(text) /\ begin < End
           /\ End # Len(text) => NextBegin \in Nat /\ NextBegin = End - OverlapRunes
                                 /\ NextBegin < Len(text)
<1>1. Len(text) \in Nat /\ begin \in Nat /\ MaxChunkRunes \in Nat /\ OverlapRunes \in Nat
      /\ OverlapRunes < MaxChunkRunes
  BY ChunkAssumption DEF CutTypes
<1> QED
  BY <1>1 DEF End, NextBegin

\* What is held stays held.
LEMMA ChunksGrow ==
    ASSUME CutTypes, Cut
    PROVE  /\ chunks' \in Seq(SUBSET Int)
           /\ \A c \in DOMAIN chunks : c \in DOMAIN chunks' /\ chunks'[c] = chunks[c]
           /\ Window # {} => \E c \in DOMAIN chunks' : chunks'[c] = Window
<1>1. Window \in SUBSET Int
  BY ChunkAssumption DEF Window, CutTypes, End
<1>2. CASE Window = {}
  BY <1>2 DEF Cut, CutTypes
<1>3. CASE Window # {}
  <2>1. chunks' = Append(chunks, Window) /\ chunks \in Seq(SUBSET Int)
    BY <1>3 DEF Cut, CutTypes
  <2>2. Len(chunks) + 1 \in DOMAIN chunks' /\ chunks'[Len(chunks) + 1] = Window
    BY <2>1, <1>1
  <2> QED
    BY <2>1, <2>2, <1>1
<1> QED
  BY <1>2, <1>3

LEMMA CutInvInit == CutInit => CutInv
<1> SUFFICES ASSUME CutInit PROVE CutInv
  OBVIOUS
<1>1. CutTypes
  BY TextsAssumption DEF CutInit, CutTypes
<1>2. cutting => begin < Len(text)
  <2>1. text # <<>> => 0 < Len(text)
    BY <1>1 DEF CutTypes
  <2> QED
    BY <2>1 DEF CutInit
<1>3. HeldSoFar
  <2>1. ASSUME NEW p \in DOMAIN text, cutting => p <= begin PROVE FALSE
    <3>1. p \in Nat /\ 0 < p /\ text # <<>>
      BY <1>1 DEF CutTypes
    <3>2. cutting /\ begin = 0
      BY <3>1 DEF CutInit
    <3> QED
      BY <2>1, <3>1, <3>2
  <2> QED
    BY <2>1 DEF HeldSoFar
<1> QED
  BY <1>1, <1>2, <1>3 DEF CutInv

LEMMA CutInvStep == CutInv /\ [Cut]_chunkVars => CutInv'
<1> SUFFICES ASSUME CutInv, [Cut]_chunkVars PROVE CutInv'
  OBVIOUS
<1>1. CASE UNCHANGED chunkVars
  BY <1>1 DEF chunkVars, CutInv, CutTypes, HeldSoFar, IsPhrase, Held
<1>2. CASE Cut
  <2>1. CutTypes /\ cutting /\ begin < Len(text) /\ HeldSoFar /\ text' = text
    BY <1>2 DEF CutInv, Cut
  <2>2. CutTypes'
    BY <1>2, <2>1, ChunksGrow, NextWindow DEF CutTypes, Cut
  <2>3. (cutting => begin < Len(text))'
    BY <1>2, <2>1, NextWindow DEF Cut
  <2>4. ASSUME NEW p \in DOMAIN text, NEW q \in DOMAIN text, IsPhrase(p, q), cutting' => p <= begin'
        PROVE  Held(p, q)'
    <3>1. CASE p <= begin
      <4>1. Held(p, q)
        BY <3>1, <2>1, <2>4 DEF HeldSoFar
      <4> QED
        BY <4>1, <2>1, <1>2, ChunksGrow DEF Held
    <3>2. CASE begin < p /\ q <= End
      <4>1. p..q \subseteq Window
        BY <3>2, <2>1, <2>4, WindowHoldsPhrases DEF IsPhrase
      <4>2. p \in Window
        BY <4>1, <2>4, <2>1 DEF IsPhrase, CutTypes
      <4> QED
        BY <4>1, <4>2, <2>1, <1>2, ChunksGrow DEF Held
    <3>3. CASE End < q
      <4>0. End # Len(text)
        BY <3>3, <2>1, NextWindow DEF CutTypes
      <4>1. cutting' /\ begin' = End - OverlapRunes
        BY <4>0, <2>1, <1>2, NextWindow DEF Cut
      <4>2. p <= End - OverlapRunes
        BY <4>1, <2>4
      <4> QED
        BY <4>2, <3>3, <2>4, <2>1, NextWindow, ChunkAssumption DEF IsPhrase
    <3> QED
      BY <3>1, <3>2, <3>3, <2>1, NextWindow DEF CutTypes
  <2>5. HeldSoFar'
    BY <2>4, <2>1 DEF HeldSoFar, IsPhrase
  <2> QED
    BY <2>2, <2>3, <2>5 DEF CutInv
<1> QED
  BY <1>1, <1>2

\* Nothing that fits the overlap is torn apart, for every text and every pair of lengths
\* (buildKnowledgeChunks, service.go:1514-1550).
THEOREM NoPhraseIsTorn == CutSpec => []PhrasesWhole
<1>1. CutInv => PhrasesWhole
  BY DEF CutInv, HeldSoFar, PhrasesWhole, IsPhrase, Held
<1> QED
  BY <1>1, CutInvInit, CutInvStep, PTL DEF CutSpec

RoundsAdvance == cutting' => begin < begin' /\ begin' < Len(text)

\* Every round but the last moves the window on and leaves some text before it, wherever the
\* blanks are, so that the loop has at most as many rounds as the text has runes: the step back
\* of service.go:1544 is shorter than the step forward of 1526.  That the loop does run to its
\* end is CutEnds.
THEOREM LoopAlwaysAdvances == CutSpec => [][RoundsAdvance]_chunkVars
<1>1. CutInv /\ [Cut]_chunkVars => [RoundsAdvance]_chunkVars
  <2> SUFFICES ASSUME CutInv, Cut, cutting' PROVE begin < begin' /\ begin' < Len(text)
    BY DEF RoundsAdvance
  <2>1. CutTypes /\ begin < Len(text)
    BY DEF Cut, CutInv
  <2>2. End # Len(text) /\ begin' = NextBegin
    BY DEF Cut
  <2>3. begin' = End - OverlapRunes /\ begin' < Len(text)
    BY <2>1, <2>2, NextWindow
  <2>4. End = begin + MaxChunkRunes
    BY <2>2 DEF End
  <2> QED
    BY <2>1, <2>3, <2>4, ChunkAssumption DEF CutTypes
<1> QED
  BY <1>1, CutInvInit, CutInvStep, PTL DEF CutSpec

-----------------------------------------------------------------------------
(* Lists put in order. *)

\* Every set of numbers has a least: what holds of n when it holds below n holds of all.
LEMMA LeastNatural ==
    ASSUME NEW S \in SUBSET Nat, S # {}
    PROVE  \E m \in S : \A n \in S : m <= n
<1> DEFINE R == OpToRel(<, Nat)
<1>1. IsWellFoundedOn(R, Nat)
  BY NatLessThanWellFounded
<1>2. \A x, y \in Nat : x < y => <<x, y>> \in R
  BY DEF OpToRel
<1> HIDE DEF R
<1>3. PICK m \in S : \A n \in S : ~(<<n, m>> \in R)
  BY <1>1, WFMin
<1>4. \A n \in S : ~(n < m)
  BY <1>2, <1>3
<1> QED
  BY <1>4

\* R puts the members of P in an order.
IsOrder(R, P) ==
    /\ \A i \in P : <<i, i>> \in R
    /\ \A i, j \in P : <<i, j>> \in R \/ <<j, i>> \in R
    /\ \A i, j \in P : <<i, j>> \in R /\ <<j, i>> \in R => i = j
    /\ \A i, j, k \in P : <<i, j>> \in R /\ <<j, k>> \in R => <<i, k>> \in R

UpTo(R, P, j) == { i \in P : <<i, j>> \in R }

LEMMA CountTo ==
    ASSUME NEW n \in Nat
    PROVE  IsFiniteSet(1..n) /\ Cardinality(1..n) = n
<1>1. 1 \in Int /\ n \in Int /\ (1 > n => n = 0) /\ n - 1 + 1 = n
  OBVIOUS
<1> QED
  BY <1>1, FS_Interval

\* Counting those before it gives every member a place of its own, in the order.
LEMMA CountsArePlaces ==
    ASSUME NEW P, IsFiniteSet(P), NEW R, IsOrder(R, P)
    PROVE  /\ Cardinality(P) \in Nat
           /\ \A j \in P : Cardinality(UpTo(R, P, j)) \in 1..Cardinality(P)
           /\ \A i, j \in P : <<i, j>> \in R <=> Cardinality(UpTo(R, P, i)) <= Cardinality(UpTo(R, P, j))
           /\ \A k \in 1..Cardinality(P) : \E j \in P : Cardinality(UpTo(R, P, j)) = k
<1> DEFINE n == Cardinality(P)
           f == [j \in P |-> Cardinality(UpTo(R, P, j))]
<1>1. n \in Nat
  BY FS_CardinalityType
<1>2. ASSUME NEW j \in P PROVE f[j] \in 1..n /\ IsFiniteSet(UpTo(R, P, j))
  <2>1. UpTo(R, P, j) \in SUBSET P /\ j \in UpTo(R, P, j)
    BY DEF UpTo, IsOrder
  <2>2. IsFiniteSet(UpTo(R, P, j)) /\ Cardinality(UpTo(R, P, j)) <= n
    BY <2>1, FS_Subset
  <2>3. Cardinality(UpTo(R, P, j)) \in Nat /\ Cardinality(UpTo(R, P, j)) # 0
    BY <2>1, <2>2, FS_CardinalityType, FS_EmptySet
  <2> QED
    BY <1>1, <2>2, <2>3
<1>3. ASSUME NEW i \in P, NEW j \in P, <<i, j>> \in R PROVE f[i] <= f[j]
  <2>1. UpTo(R, P, i) \in SUBSET UpTo(R, P, j)
    BY <1>3 DEF UpTo, IsOrder
  <2> QED
    BY <1>2, <2>1, FS_Subset
<1>4. ASSUME NEW i \in P, NEW j \in P, <<i, j>> \notin R PROVE ~(f[i] <= f[j])
  <2>1. <<j, i>> \in R /\ i \notin UpTo(R, P, j) /\ i \in UpTo(R, P, i)
    BY <1>4 DEF UpTo, IsOrder
  <2>2. UpTo(R, P, j) \in SUBSET UpTo(R, P, i) /\ UpTo(R, P, j) # UpTo(R, P, i)
    BY <2>1 DEF UpTo, IsOrder
  <2>3. f[j] <= f[i] /\ f[j] # f[i]
    BY <1>2, <2>2, FS_Subset
  <2> QED
    BY <1>1, <1>2, <2>3
<1> HIDE DEF f
<1>5. \A i, j \in P : f[i] = f[j] => i = j
  <2> SUFFICES ASSUME NEW i \in P, NEW j \in P, f[i] = f[j] PROVE i = j
    OBVIOUS
  <2>1. f[i] <= f[j] /\ f[j] <= f[i]
    BY <1>1, <1>2
  <2>2. <<i, j>> \in R /\ <<j, i>> \in R
    BY <1>4, <2>1
  <2> QED
    BY <2>2 DEF IsOrder
<1>6. f \in Injection(P, 1..n)
  <2>1. f \in [P -> 1..n]
    BY <1>2 DEF f
  <2> QED
    BY <1>5, <2>1 DEF Injection, IsInjective
<1>7. f \in Surjection(P, 1..n)
  BY <1>1, <1>6, CountTo, FS_Injection
<1>8. \A k \in 1..n : \E j \in P : f[j] = k
  BY <1>7 DEF Surjection
<1> QED
  BY <1>1, <1>2, <1>3, <1>4, <1>8 DEF f

\* The places of s in P, each where counting puts it.
Counted(s, P, R) == Arranged(s, [j \in P |-> Cardinality(UpTo(R, P, j))])

\* The item at a place of a is the one of s that f names, and f keeps the order.
InOrder(a, s, P, R, n) ==
    \E f \in [1..n -> P] :
        /\ a = [k \in 1..n |-> s[f[k]]]
        /\ \A k, l \in 1..n : k <= l <=> <<f[k], f[l]>> \in R
        /\ \A j \in P : \E k \in 1..n : f[k] = j

LEMMA ArrangedInOrder ==
    ASSUME NEW s, NEW P, IsFiniteSet(P), NEW R, IsOrder(R, P)
    PROVE  /\ Cardinality(P) \in Nat
           /\ InOrder(Counted(s, P, R), s, P, R, Cardinality(P))
<1> DEFINE a == Counted(s, P, R)
           n == Cardinality(P)
           g == [j \in P |-> Cardinality(UpTo(R, P, j))]
           f == [k \in 1..n |-> CHOOSE j \in P : g[j] = k]
<1>1. /\ n \in Nat
      /\ \A j \in P : g[j] \in 1..n
      /\ \A i, j \in P : <<i, j>> \in R <=> g[i] <= g[j]
      /\ \A k \in 1..n : \E j \in P : g[j] = k
  BY CountsArePlaces
<1>2. a = [k \in 1..n |-> s[CHOOSE j \in P : g[j] = k]]
  <2>1. DOMAIN g = P
    OBVIOUS
  <2> HIDE DEF g
  <2> QED
    BY <2>1 DEF Arranged, g, Counted
<1> HIDE DEF g, n, a
<1>3. \A k \in 1..n : f[k] \in P /\ g[f[k]] = k
  BY <1>1
<1>4. a = [k \in 1..n |-> s[f[k]]]
  BY <1>2
<1> HIDE DEF f
<1>5. \A k, l \in 1..n : k <= l <=> <<f[k], f[l]>> \in R
  BY <1>1, <1>3
<1>6. ASSUME NEW j \in P PROVE \E k \in 1..n : f[k] = j
  <2>1. g[j] \in 1..n /\ g[f[g[j]]] = g[j] /\ f[g[j]] \in P
    BY <1>1, <1>3
  <2>2. g[j] <= g[f[g[j]]] /\ g[f[g[j]]] <= g[j]
    BY <1>1, <2>1
  <2>3. <<j, f[g[j]]>> \in R /\ <<f[g[j]], j>> \in R
    BY <1>1, <2>1, <2>2
  <2>4. f[g[j]] = j
    BY <2>1, <2>3 DEF IsOrder
  <2> QED
    BY <2>1, <2>4
<1>7. f \in [1..n -> P]
  BY <1>3 DEF f
<1> QED
  BY <1>1, <1>4, <1>5, <1>6, <1>7 DEF n, a, InOrder

\* The n items of a are those of s at the places P, in their order.
Keeps(f, a, s, P, n) ==
    /\ n \in Nat
    /\ f \in [1..n -> P]
    /\ a = [k \in 1..n |-> s[f[k]]]
    /\ \A k, l \in 1..n : k <= l <=> f[k] <= f[l]
    /\ \A j \in P : \E k \in 1..n : f[k] = j

\* What is kept of a list stays in its order.
LEMMA OnlyKeepsOrder ==
    ASSUME NEW m \in Nat, NEW P \in SUBSET (1..m), NEW s
    PROVE  \E f : Keeps(f, Only(s, P), s, P, Cardinality(P))
<1> DEFINE R == { p \in P \X P : p[1] <= p[2] }
<1>1. IsFiniteSet(P)
  BY CountTo, FS_Subset
<1>2. \A i, j \in P : <<i, j>> \in R <=> i <= j
  OBVIOUS
<1>3. \A i \in P : i \in Int
  OBVIOUS
<1> HIDE DEF R
<1>4. IsOrder(R, P)
  BY <1>2, <1>3 DEF IsOrder
<1>5. \A j \in P : UpTo(R, P, j) = { i \in P : i <= j }
  BY <1>2 DEF UpTo
<1>6. Only(s, P) = Counted(s, P, R)
  BY <1>5 DEF Only, Counted
<1>7. Cardinality(P) \in Nat /\ InOrder(Only(s, P), s, P, R, Cardinality(P))
  BY <1>1, <1>4, <1>6, ArrangedInOrder
<1>8. PICK f \in [1..Cardinality(P) -> P] :
             /\ Only(s, P) = [k \in 1..Cardinality(P) |-> s[f[k]]]
             /\ \A k, l \in 1..Cardinality(P) : k <= l <=> <<f[k], f[l]>> \in R
             /\ \A j \in P : \E k \in 1..Cardinality(P) : f[k] = j
  BY <1>7 DEF InOrder
<1>9. \A k, l \in 1..Cardinality(P) : k <= l <=> f[k] <= f[l]
  BY <1>2, <1>8
<1> QED
  BY <1>7, <1>8, <1>9 DEF Keeps

\* The n matches of a are those of ms, each once, the higher scores first.
Sorts(f, a, ms, n) ==
    /\ f \in [1..n -> 1..n]
    /\ a = [k \in 1..n |-> ms[f[k]]]
    /\ \A k, l \in 1..n : k <= l => ms[f[k]].score >= ms[f[l]].score
    /\ \A k, l \in 1..n : f[k] = f[l] => k = l
    /\ \A j \in 1..n : \E k \in 1..n : f[k] = j

LEMMA BestFirstSorts ==
    ASSUME NEW n \in Nat, NEW ms, DOMAIN ms = 1..n, \A i \in 1..n : ms[i].score \in Int
    PROVE  \E f : Sorts(f, BestFirst(ms), ms, n)
<1> DEFINE P == 1..n
           Before(i, j) == ms[i].score > ms[j].score \/ (ms[i].score = ms[j].score /\ i <= j)
           R == { p \in P \X P : Before(p[1], p[2]) }
<1>1. IsFiniteSet(P) /\ Cardinality(P) = n
  BY CountTo
<1>2. \A i, j \in P : <<i, j>> \in R <=> Before(i, j)
  OBVIOUS
<1> HIDE DEF R
<1>3. \A i \in P : i \in Int
  OBVIOUS
<1>4. IsOrder(R, P)
  <2>1. \A i \in P : <<i, i>> \in R
    BY <1>2, <1>3
  <2>2. ASSUME NEW i \in P, NEW j \in P PROVE Before(i, j) \/ Before(j, i)
    <3>1. ms[i].score \in Int /\ ms[j].score \in Int
      OBVIOUS
    <3> QED
      BY <1>3, <3>1
  <2>3. \A i, j \in P : <<i, j>> \in R /\ <<j, i>> \in R => i = j
    BY <1>2, <1>3
  <2>4. ASSUME NEW i \in P, NEW j \in P, NEW k \in P, Before(i, j), Before(j, k)
        PROVE  Before(i, k)
    <3> DEFINE x == ms[i].score
               y == ms[j].score
               z == ms[k].score
    <3>1. x \in Int /\ y \in Int /\ z \in Int
      OBVIOUS
    <3>2. (x > y \/ (x = y /\ i <= j)) /\ (y > z \/ (y = z /\ j <= k))
      BY <2>4
    <3> SUFFICES x > z \/ (x = z /\ i <= k)
      OBVIOUS
    <3> HIDE DEF x, y, z
    <3> QED
      BY <1>3, <3>1, <3>2
  <2> QED
    BY <1>2, <2>1, <2>2, <2>3, <2>4 DEF IsOrder
<1>5. \A j \in P : UpTo(R, P, j) = { i \in P : Before(i, j) }
  BY <1>2 DEF UpTo
<1>6. BestFirst(ms) = Counted(ms, P, R)
  BY <1>5 DEF BestFirst, Counted
<1> HIDE DEF P
<1>7. InOrder(BestFirst(ms), ms, P, R, n)
  BY <1>1, <1>4, <1>6, ArrangedInOrder
<1>8. PICK f \in [1..n -> P] :
             /\ BestFirst(ms) = [k \in 1..n |-> ms[f[k]]]
             /\ \A k, l \in 1..n : k <= l <=> <<f[k], f[l]>> \in R
             /\ \A j \in P : \E k \in 1..n : f[k] = j
  BY <1>7 DEF InOrder
<1>9. \A k, l \in 1..n : k <= l => ms[f[k]].score >= ms[f[l]].score
  <2> SUFFICES ASSUME NEW k \in 1..n, NEW l \in 1..n, k <= l PROVE ms[f[k]].score >= ms[f[l]].score
    OBVIOUS
  <2>1. Before(f[k], f[l]) /\ f[k] \in P /\ f[l] \in P
    BY <1>2, <1>8
  <2> QED
    BY <2>1 DEF P
<1>10. \A k, l \in 1..n : f[k] = f[l] => k = l
  <2> SUFFICES ASSUME NEW k \in 1..n, NEW l \in 1..n, f[k] = f[l] PROVE k = l
    OBVIOUS
  <2>1. k <= l \/ l <= k
    OBVIOUS
  <2>2. k <= k /\ l <= l
    OBVIOUS
  <2>3. k <= l /\ l <= k
    BY <1>8, <2>2
  <2> QED
    BY <2>3
<1> QED
  BY <1>8, <1>9, <1>10 DEF P, Sorts

-----------------------------------------------------------------------------
(* The merge. *)

\* The first n turns of the loop, as a function of the turn.
Turns(found, n, g) ==
    g = [k \in 0..n |-> IF k = 0 THEN <<>> ELSE Add(g[k - 1], found[k])]

LEMMA TurnsExist ==
    ASSUME NEW found, NEW N \in Nat
    PROVE  \E g : Turns(found, N, g)
<1> DEFINE Bad == { n \in Nat : ~ \E g : Turns(found, n, g) }
<1> SUFFICES ASSUME Bad # {} PROVE FALSE
  OBVIOUS
<1>1. PICK m \in Bad : \A n \in Bad : m <= n
  BY LeastNatural
<1>2. m \in Nat /\ ~ \E g : Turns(found, m, g)
  OBVIOUS
<1>3. ASSUME m = 0 PROVE FALSE
  <2> DEFINE g == [k \in 0..0 |-> <<>>]
  <2>1. g = [k \in 0..0 |-> IF k = 0 THEN <<>> ELSE Add(g[k - 1], found[k])]
    OBVIOUS
  <2> QED
    BY <1>2, <1>3, <2>1 DEF Turns
<1>4. ASSUME m # 0 PROVE FALSE
  <2>1. m - 1 \in Nat /\ ~(m <= m - 1)
    BY <1>2, <1>4
  <2>2. m - 1 \notin Bad
    BY <1>1, <2>1
  <2>3. PICK g : Turns(found, m - 1, g)
    BY <2>1, <2>2
  <2> DEFINE h == [k \in 0..m |-> IF k = m THEN Add(g[m - 1], found[m]) ELSE g[k]]
  <2>4. \A k \in 0..m-1 : g[k] = IF k = 0 THEN <<>> ELSE Add(g[k - 1], found[k])
    BY <2>3 DEF Turns
  <2>5. ASSUME NEW k \in 0..m PROVE h[k] = IF k = 0 THEN <<>> ELSE Add(h[k - 1], found[k])
    <3>1. CASE k = m
      <4>1. h[m] = Add(g[m - 1], found[m]) /\ h[m - 1] = g[m - 1]
        BY <1>2, <2>1
      <4> QED
        BY <1>4, <3>1, <4>1
    <3>2. CASE k # m /\ k = 0
      BY <1>2, <2>1, <2>4, <3>2
    <3>3. CASE k # m /\ k # 0
      <4>1. k \in 0..m-1 /\ k - 1 \in 0..m /\ k - 1 # m
        BY <1>2, <3>3
      <4>2. h[k] = g[k] /\ h[k - 1] = g[k - 1]
        BY <3>3, <4>1
      <4> QED
        BY <2>4, <3>3, <4>1, <4>2
    <3> QED
      BY <3>1, <3>2, <3>3
  <2>6. h = [k \in 0..m |-> h[k]]
    OBVIOUS
  <2> HIDE DEF h
  <2>7. h = [k \in 0..m |-> IF k = 0 THEN <<>> ELSE Add(h[k - 1], found[k])]
    BY <2>5, <2>6
  <2> QED
    BY <1>2, <2>7 DEF Turns
<1> QED
  BY <1>3, <1>4

LEMMA MergeTurns ==
    ASSUME NEW found, Len(found) \in Nat
    PROVE  \A n \in 0..Len(found) :
             MergedUpTo(found)[n] = IF n = 0 THEN <<>> ELSE Add(MergedUpTo(found)[n - 1], found[n])
<1>1. MergedUpTo(found) =
        CHOOSE g : g = [n \in 0..Len(found) |-> IF n = 0 THEN <<>> ELSE Add(g[n - 1], found[n])]
  BY Zenon DEF MergedUpTo
<1>2. PICK h : h = [n \in 0..Len(found) |-> IF n = 0 THEN <<>> ELSE Add(h[n - 1], found[n])]
  BY TurnsExist DEF Turns
<1>3. MergedUpTo(found) =
        [n \in 0..Len(found) |-> IF n = 0 THEN <<>> ELSE Add(MergedUpTo(found)[n - 1], found[n])]
  BY <1>1, <1>2, Zenon
<1> QED
  BY <1>3

\* What a goroutine may have found.
Finding == [id : Chunks, score : Int, source : {"vector", "keyword"}, reranked : {FALSE}]

\* m stands for what the first n of found say of its chunk: the better score, and both sources.
StandsFor(m, found, n) ==
    /\ ~m.reranked
    /\ \E i \in 1..n : found[i].id = m.id /\ found[i].score = m.score
    /\ \A i \in 1..n : found[i].id = m.id => found[i].score <= m.score
    /\ m.source = "hybrid" =>
         \E i, j \in 1..n : found[i].id = m.id /\ found[j].id = m.id /\ found[i].source # found[j].source
    /\ m.source # "hybrid" => \A i \in 1..n : found[i].id = m.id => found[i].source = m.source

LEMMA FindingFacts ==
    ASSUME NEW found \in Seq(Finding), NEW i \in 1..Len(found)
    PROVE  /\ found[i] \in Match /\ found[i].id \in Chunks /\ found[i].score \in Int
           /\ found[i].source \in {"vector", "keyword"} /\ found[i].source # "hybrid"
           /\ ~found[i].reranked
<1>1. found[i] \in Finding
  OBVIOUS
<1>2. \A m \in Finding : /\ m \in Match /\ m.id \in Chunks /\ m.score \in Int
                        /\ m.source \in {"vector", "keyword"} /\ ~m.reranked
  BY DEF Finding, Match
<1> QED
  BY <1>1, <1>2

MergesTo(merged, found, n) ==
    /\ merged \in Seq(Match)
    /\ \A i, j \in 1..Len(merged) : merged[i].id = merged[j].id => i = j
    /\ \A i \in 1..Len(merged) : StandsFor(merged[i], found, n)
    /\ \A j \in 1..n : \E i \in 1..Len(merged) : merged[i].id = found[j].id

\* The better of two matches of a chunk stands for one more.
LEMMA CombinedStandsFor ==
    ASSUME NEW found \in Seq(Finding), NEW n \in Nat, n + 1 \in 1..Len(found),
           NEW m \in Match, StandsFor(m, found, n), m.id = found[n + 1].id
    PROVE  /\ Combined(m, found[n + 1]) \in Match
           /\ Combined(m, found[n + 1]).id = m.id
           /\ StandsFor(Combined(m, found[n + 1]), found, n + 1)
<1> DEFINE new == found[n + 1]
           better == IF new.score > m.score THEN new ELSE m
           c == Combined(m, new)
<1>1. /\ new \in Match /\ new.score \in Int /\ ~new.reranked
      /\ \A i \in 1..n+1 : found[i].score \in Int
  <2>1. \A i \in 1..n+1 : i \in 1..Len(found)
    OBVIOUS
  <2> QED
    BY <2>1, FindingFacts
<1>2. m \in [id : Chunks, score : Int, source : {"vector", "keyword", "hybrid"}, reranked : BOOLEAN]
  BY DEF Match
<1>3. c = IF m.source # new.source THEN [better EXCEPT !.source = "hybrid"] ELSE better
  BY DEF Combined
<1> HIDE DEF c, new
<1>4. better \in Match /\ better.id = m.id /\ better.score = (IF new.score > m.score THEN new.score ELSE m.score)
  <2>1. CASE new.score > m.score
    BY <1>1, <2>1 DEF Match, new
  <2>2. CASE ~(new.score > m.score)
    BY <1>2, <2>2 DEF Match
  <2> QED
    BY <2>1, <2>2
<1>5. better.source \in {m.source, new.source}
  OBVIOUS
<1>5a. ~better.reranked
  BY <1>1 DEF StandsFor
<1> HIDE DEF better
<1>6. /\ c \in Match /\ c.id = m.id /\ c.score = better.score /\ c.reranked = better.reranked
      /\ c.source = IF m.source # new.source THEN "hybrid" ELSE m.source
  <2>1. CASE m.source # new.source
    BY <1>3, <1>4, <2>1 DEF Match
  <2>2. CASE m.source = new.source
    BY <1>3, <1>4, <1>5, <2>2
  <2> QED
    BY <2>1, <2>2
<1>7. \A i \in 1..n+1 : i \in 1..n \/ i = n + 1
  OBVIOUS
<1>8. n + 1 \in 1..n+1 /\ \A i \in 1..n : i \in 1..n+1
  OBVIOUS
<1>9. /\ c.score \in Int /\ m.score \in Int /\ new.score \in Int
      /\ c.score = (IF new.score > m.score THEN new.score ELSE m.score)
  BY <1>1, <1>2, <1>4, <1>6
<1>10. \E i \in 1..n+1 : found[i].id = c.id /\ found[i].score = c.score
  <2>1. PICK i \in 1..n : found[i].id = m.id /\ found[i].score = m.score
    BY DEF StandsFor
  <2> QED
    BY <1>6, <1>8, <1>9, <2>1 DEF new
<1>11. \A i \in 1..n+1 : found[i].id = c.id => found[i].score <= c.score
  <2> SUFFICES ASSUME NEW i \in 1..n+1, found[i].id = c.id PROVE found[i].score <= c.score
    OBVIOUS
  <2>1. CASE i \in 1..n
    <3>1. found[i].score <= m.score
      BY <1>6, <2>1 DEF StandsFor
    <3> QED
      BY <1>1, <1>9, <3>1
  <2>2. CASE i = n + 1
    BY <1>9, <2>2 DEF new
  <2> QED
    BY <1>7, <2>1, <2>2
<1>12. ASSUME c.source = "hybrid"
       PROVE  \E i, j \in 1..n+1 : found[i].id = c.id /\ found[j].id = c.id /\ found[i].source # found[j].source
  <2>1. CASE m.source = "hybrid"
    BY <1>6, <1>8, <2>1 DEF StandsFor
  <2>2. CASE m.source # "hybrid"
    <3>1. PICK i \in 1..n : found[i].id = m.id
      BY DEF StandsFor
    <3>2. found[i].source = m.source
      BY <2>2, <3>1 DEF StandsFor
    <3>3. m.source # new.source
      BY <1>6, <1>12, <2>2
    <3> QED
      BY <1>6, <1>8, <3>1, <3>2, <3>3 DEF new
  <2> QED
    BY <2>1, <2>2
<1>13. ASSUME c.source # "hybrid", NEW i \in 1..n+1, found[i].id = c.id PROVE found[i].source = c.source
  <2>1. m.source = new.source /\ c.source = m.source
    BY <1>6, <1>13
  <2>2. CASE i \in 1..n
    BY <1>6, <1>13, <2>1, <2>2 DEF StandsFor
  <2>3. CASE i = n + 1
    BY <2>1, <2>3 DEF new
  <2> QED
    BY <1>7, <2>2, <2>3
<1>14. StandsFor(c, found, n + 1)
  BY <1>5a, <1>6, <1>10, <1>11, <1>12, <1>13 DEF StandsFor
<1> QED
  BY <1>6, <1>14 DEF c, new

\* A match of another chunk says nothing of it.
LEMMA OtherStandsFor ==
    ASSUME NEW found \in Seq(Finding), NEW n \in Nat, n + 1 \in 1..Len(found),
           NEW m, StandsFor(m, found, n), m.id # found[n + 1].id
    PROVE  StandsFor(m, found, n + 1)
<1>1. \A i \in 1..n+1 : i \in 1..n \/ i = n + 1
  OBVIOUS
<1>2. \A i \in 1..n : i \in 1..n+1
  OBVIOUS
<1> QED
  BY <1>1, <1>2 DEF StandsFor

LEMMA AddMerges ==
    ASSUME NEW found \in Seq(Finding), NEW n \in Nat, n + 1 \in 1..Len(found),
           NEW merged, MergesTo(merged, found, n)
    PROVE  MergesTo(Add(merged, found[n + 1]), found, n + 1)
<1> DEFINE new == found[n + 1]
           next == Add(merged, new)
           L == Len(merged)
<1>1. merged \in Seq(Match) /\ L \in Nat /\ DOMAIN merged = 1..L /\ \A i \in 1..L : merged[i] \in Match
  BY DEF MergesTo
<1>2. new \in Match /\ new.source # "hybrid" /\ new.score \in Int /\ ~new.reranked
  BY FindingFacts
<1>3. \A i \in 1..L : StandsFor(merged[i], found, n)
  BY DEF MergesTo
<1>4. \A i \in 1..n+1 : i \in 1..n \/ i = n + 1
  OBVIOUS
<1>5. n + 1 \in 1..n+1
  OBVIOUS
<1>6. CASE new.id \in Ids(merged)
  <2> DEFINE At(i) == IF merged[i].id = new.id THEN Combined(merged[i], new) ELSE merged[i]
  <2>1. next = [i \in 1..L |-> At(i)]
    BY <1>1, <1>6 DEF Add
  <2>2. ASSUME NEW i \in 1..L
        PROVE  At(i) \in Match /\ At(i).id = merged[i].id /\ StandsFor(At(i), found, n + 1)
    <3>1. CASE merged[i].id = new.id
      BY <1>1, <1>3, <3>1, CombinedStandsFor
    <3>2. CASE merged[i].id # new.id
      BY <1>1, <1>3, <3>2, OtherStandsFor
    <3> QED
      BY <3>1, <3>2
  <2> HIDE DEF At
  <2>3. next \in Seq(Match) /\ Len(next) = L /\ \A i \in 1..L : next[i] = At(i)
    BY <1>1, <2>1, <2>2
  <2> HIDE DEF next
  <2>4. \A i, j \in 1..L : next[i].id = next[j].id => i = j
    BY <2>2, <2>3 DEF MergesTo
  <2>5. ASSUME NEW j \in 1..n+1 PROVE \E i \in 1..L : next[i].id = found[j].id
    <3>1. CASE j \in 1..n
      <4>1. PICK i \in 1..L : merged[i].id = found[j].id
        BY <3>1 DEF MergesTo
      <4>2. next[i].id = merged[i].id
        BY <2>2, <2>3
      <4> QED
        BY <4>1, <4>2, Zenon
    <3>2. CASE j = n + 1
      <4>1. PICK i \in 1..L : merged[i].id = new.id
        BY <1>1, <1>6 DEF Ids
      <4>2. next[i].id = new.id
        BY <2>2, <2>3, <4>1
      <4>3. found[j].id = new.id
        BY <3>2
      <4> QED
        BY <4>2, <4>3, Zenon
    <3> QED
      BY <1>4, <3>1, <3>2
  <2>6. \A i \in 1..L : StandsFor(next[i], found, n + 1)
    BY <2>2, <2>3
  <2>7. MergesTo(next, found, n + 1)
    BY <2>3, <2>4, <2>5, <2>6 DEF MergesTo
  <2> QED
    BY <2>7 DEF next
<1>7. CASE new.id \notin Ids(merged)
  <2>1. next = Append(merged, new)
    BY <1>7 DEF Add
  <2>2. next \in Seq(Match) /\ Len(next) = L + 1 /\ next[L + 1] = new /\ \A i \in 1..L : next[i] = merged[i]
    BY <1>1, <1>2, <2>1
  <2> HIDE DEF next
  <2>3. \A i \in 1..L : merged[i].id # new.id
    BY <1>1, <1>7 DEF Ids
  <2>4. \A i \in 1..L+1 : i \in 1..L \/ i = L + 1
    BY <1>1
  <2>5. \A i, j \in 1..L+1 : next[i].id = next[j].id => i = j
    BY <2>2, <2>3, <2>4 DEF MergesTo
  <2>6. ASSUME NEW i \in 1..L PROVE StandsFor(merged[i], found, n + 1)
    BY <1>3, <2>3, OtherStandsFor
  <2>7. ASSUME NEW i \in 1..n PROVE found[i].id # new.id
    BY <2>3 DEF MergesTo
  <2>8. StandsFor(new, found, n + 1)
    <3>1. \A i \in 1..n+1 : found[i].id = new.id => found[i] = new
      BY <1>4, <2>7
    <3>2. found[n + 1].id = new.id /\ found[n + 1].score = new.score
      OBVIOUS
    <3> HIDE DEF new
    <3>3. \E i \in 1..n+1 : found[i].id = new.id /\ found[i].score = new.score
      BY <1>5, <3>2
    <3> QED
      BY <1>2, <3>1, <3>3 DEF StandsFor
  <2>9. \A i \in 1..L+1 : StandsFor(next[i], found, n + 1)
    BY <2>2, <2>4, <2>6, <2>8
  <2>10. ASSUME NEW j \in 1..n+1 PROVE \E i \in 1..L+1 : next[i].id = found[j].id
    <3>1. CASE j \in 1..n
      <4>1. PICK i \in 1..L : merged[i].id = found[j].id
        BY <3>1 DEF MergesTo
      <4> QED
        BY <1>1, <2>2, <4>1
    <3>2. CASE j = n + 1
      <4>1. L + 1 \in 1..L+1
        BY <1>1
      <4> QED
        BY <2>2, <3>2, <4>1
    <3> QED
      BY <1>4, <3>1, <3>2
  <2>11. MergesTo(next, found, n + 1)
    BY <2>2, <2>5, <2>9, <2>10 DEF MergesTo
  <2> QED
    BY <2>11 DEF next
<1> QED
  BY <1>6, <1>7

\* After the loop there is one match for every chunk found, and it stands for all of them.
LEMMA LoopMerges ==
    ASSUME NEW found \in Seq(Finding)
    PROVE  MergesTo(MergedUpTo(found)[Len(found)], found, Len(found))
<1> DEFINE N == Len(found)
           M(n) == MergedUpTo(found)[n]
           Bad == { n \in Nat : n <= N /\ ~MergesTo(M(n), found, n) }
<1>1. N \in Nat
  OBVIOUS
<1>2. \A n \in 0..N : M(n) = IF n = 0 THEN <<>> ELSE Add(M(n - 1), found[n])
  BY <1>1, MergeTurns
<1>3. ASSUME Bad # {} PROVE FALSE
  <2>1. PICK m \in Bad : \A n \in Bad : m <= n
    BY <1>3, LeastNatural
  <2>2. m \in 0..N /\ ~MergesTo(M(m), found, m)
    BY <2>1
  <2>3. CASE m = 0
    <3>1. M(0) = <<>>
      BY <1>2, <2>2, <2>3
    <3> HIDE DEF M
    <3>2. M(0) \in Seq(Match) /\ Len(M(0)) = 0
      <4>1. <<>> \in Seq(Match) /\ Len(<<>>) = 0
        OBVIOUS
      <4> QED
        BY <3>1, <4>1, Zenon
    <3>3. \A i \in 1..0 : FALSE
      OBVIOUS
    <3> QED
      BY <2>2, <2>3, <3>2, <3>3 DEF MergesTo
  <2>4. CASE m # 0
    <3>1. m - 1 \in Nat /\ m - 1 <= N /\ ~(m <= m - 1) /\ m - 1 + 1 = m /\ m \in 1..N
      BY <1>1, <2>2, <2>4
    <3>2. MergesTo(M(m - 1), found, m - 1)
      BY <2>1, <3>1
    <3>3. M(m) = Add(M(m - 1), found[m])
      BY <1>2, <2>2, <2>4
    <3> HIDE DEF M
    <3> DEFINE n == m - 1
    <3>4. n \in Nat /\ n + 1 = m
      BY <3>1
    <3>5. MergesTo(M(n), found, n)
      BY <3>2
    <3> HIDE DEF n
    <3>6. MergesTo(Add(M(n), found[n + 1]), found, n + 1)
      BY <3>1, <3>4, <3>5, AddMerges
    <3> QED
      BY <2>2, <3>3, <3>4, <3>6 DEF n
  <2> QED
    BY <2>3, <2>4
<1> QED
  BY <1>1, <1>3

\* The chunks of a list of matches.
LEMMA IdsCount ==
    ASSUME NEW s \in Seq(Match), \A i, j \in 1..Len(s) : s[i].id = s[j].id => i = j
    PROVE  IsFiniteSet(Ids(s)) /\ Cardinality(Ids(s)) = Len(s)
<1> DEFINE n == Len(s)
           f == [i \in 1..n |-> s[i].id]
<1>1. n \in Nat /\ DOMAIN s = 1..n
  OBVIOUS
<1>2. f \in [1..n -> Ids(s)]
  BY <1>1 DEF Ids
<1>3. \A i, j \in 1..n : f[i] = f[j] => i = j
  OBVIOUS
<1>4. \A id \in Ids(s) : \E i \in 1..n : f[i] = id
  BY <1>1 DEF Ids
<1> HIDE DEF f, n
<1>5. f \in Bijection(1..n, Ids(s))
  BY <1>2, <1>3, <1>4, Fun_IsBij
<1>6. ExistsBijection(1..n, Ids(s))
  BY <1>5 DEF ExistsBijection
<1>7. IsFiniteSet(1..n) /\ Cardinality(1..n) = n
  BY <1>1, CountTo
<1> QED
  BY <1>6, <1>7, FS_Bijection DEF n

LEMMA IdsAtMost ==
    ASSUME NEW s \in Seq(Match)
    PROVE  IsFiniteSet(Ids(s)) /\ Cardinality(Ids(s)) <= Len(s)
<1> DEFINE n == Len(s)
           f == [i \in 1..n |-> s[i].id]
<1>1. n \in Nat /\ DOMAIN s = 1..n
  OBVIOUS
<1>2. f \in [1..n -> Ids(s)]
  BY <1>1 DEF Ids
<1>3. \A id \in Ids(s) : \E i \in 1..n : f[i] = id
  BY <1>1 DEF Ids
<1> HIDE DEF f, n
<1>4. f \in Surjection(1..n, Ids(s))
  BY <1>2, <1>3, Fun_IsSurj
<1>5. IsFiniteSet(1..n) /\ Cardinality(1..n) = n
  BY <1>1, CountTo
<1> QED
  BY <1>4, <1>5, FS_Surjection DEF n

LEMMA FirstOfKeeps ==
    ASSUME NEW n \in Nat, NEW T, NEW s \in Seq(T)
    PROVE  /\ FirstOf(n, s) \in Seq(T)
           /\ Len(FirstOf(n, s)) = AtMost(n, Len(s))
           /\ Len(FirstOf(n, s)) <= n /\ Len(FirstOf(n, s)) <= Len(s)
           /\ \A i \in 1..Len(FirstOf(n, s)) : FirstOf(n, s)[i] = s[i]
           /\ Len(s) <= n => FirstOf(n, s) = s
<1> DEFINE m == AtMost(n, Len(s))
<1>1. m \in 0..Len(s) /\ m <= n /\ (Len(s) <= n => m = Len(s))
  BY DEF AtMost
<1> HIDE DEF m
<1>2. SubSeq(s, 1, m) \in Seq(T) /\ Len(SubSeq(s, 1, m)) = m /\ \A i \in 1..m : SubSeq(s, 1, m)[i] = s[i]
  BY <1>1
<1>3. m = Len(s) => SubSeq(s, 1, m) = s
  BY <1>2
<1> QED
  BY <1>1, <1>2, <1>3 DEF FirstOf, m

-----------------------------------------------------------------------------
(* The weights. *)

LEMMA WeighedMatch ==
    ASSUME NEW m \in Match
    PROVE  Weighed(m) \in Match /\ Weighed(m).id = m.id /\ Weighed(m).reranked = m.reranked
<1> DEFINE about2 == Found[m.id]
           bonus == 45 * about2.inQuestion + 25 * about2.inContent
                    + (IF about2.exact THEN 60 ELSE 0)
                    + (IF about2.inQuestion >= 2 THEN 40 ELSE 0)
                    + (IF about2.inQuestion > 0 /\ about2.inContent > 0 THEN 25 ELSE 0)
                    + (IF m.source = "hybrid" THEN 35 ELSE 0)
<1>1. m \in [id : Chunks, score : Int, source : {"vector", "keyword", "hybrid"}, reranked : BOOLEAN]
  BY DEF Match
<1>2. about2 \in Aspects
  BY <1>1, FoundAssumption DEF Chunks
<1>3. bonus \in Int
  BY <1>2 DEF Aspects
<1>4. AtMost(990, m.score + bonus) \in Int
  BY <1>1, <1>3 DEF AtMost
<1>5. Weighed(m) = IF terms THEN [m EXCEPT !.score = AtMost(990, m.score + bonus)] ELSE m
  BY Zenon DEF Weighed
<1> HIDE DEF bonus
<1>6. [m EXCEPT !.score = AtMost(990, m.score + bonus)] \in Match
      /\ [m EXCEPT !.score = AtMost(990, m.score + bonus)].id = m.id
      /\ [m EXCEPT !.score = AtMost(990, m.score + bonus)].reranked = m.reranked
  BY <1>1, <1>4 DEF Match
<1> QED
  BY <1>5, <1>6

LEMMA WeighedAlike ==
    ASSUME NEW a \in Match, NEW b \in Match, a.id = b.id, a.score = b.score,
           a.source = "hybrid" <=> b.source = "hybrid"
    PROVE  Weighed(a).score = Weighed(b).score
<1> DEFINE bonus(m) == 45 * Found[m.id].inQuestion + 25 * Found[m.id].inContent
                    + (IF Found[m.id].exact THEN 60 ELSE 0)
                    + (IF Found[m.id].inQuestion >= 2 THEN 40 ELSE 0)
                    + (IF Found[m.id].inQuestion > 0 /\ Found[m.id].inContent > 0 THEN 25 ELSE 0)
                    + (IF m.source = "hybrid" THEN 35 ELSE 0)
<1>1. bonus(a) = bonus(b)
  OBVIOUS
<1>2. \A m \in Match : Weighed(m) = IF terms THEN [m EXCEPT !.score = AtMost(990, m.score + bonus(m))] ELSE m
  BY Zenon DEF Weighed
<1> HIDE DEF bonus
<1>3. \A m \in Match : Weighed(m).score = IF terms THEN AtMost(990, m.score + bonus(m)) ELSE m.score
  BY <1>2 DEF Match
<1> QED
  BY <1>1, <1>3

\* What the two goroutines say of a chunk, weighed: as RankingSelects has it.
OfChunk(found, id) == { m \in found : m.id = id }
BestOf(found, id) == CHOOSE m \in OfChunk(found, id) : \A n \in OfChunk(found, id) : n.score <= m.score
WeightOf(found, id) ==
    Weighed([BestOf(found, id) EXCEPT !.source =
               IF Cardinality({ m.source : m \in OfChunk(found, id) }) = 2 THEN "hybrid" ELSE @]).score

LEMMA TwoSources ==
    ASSUME NEW S \in SUBSET {"vector", "keyword"}, S # {}
    PROVE  Cardinality(S) = 2 <=> \E x, y \in S : x # y
<1>1. Cardinality({"vector"}) = 1 /\ Cardinality({"keyword"}) = 1
  BY FS_Singleton
<1>2. Cardinality({"vector", "keyword"}) = 2
  <2>1. IsFiniteSet({"vector"}) /\ "keyword" \notin {"vector"}
    BY FS_Singleton
  <2>2. Cardinality({"vector"} \cup {"keyword"}) = Cardinality({"vector"}) + 1
    BY <2>1, FS_AddElement
  <2>3. {"vector"} \cup {"keyword"} = {"vector", "keyword"}
    OBVIOUS
  <2> QED
    BY <1>1, <2>2, <2>3
<1>3. S = {"vector"} \/ S = {"keyword"} \/ S = {"vector", "keyword"}
  OBVIOUS
<1> QED
  BY <1>1, <1>2, <1>3

LEMMA WeightOfMerged ==
    ASSUME NEW found \in Seq(Finding), NEW m \in Match, StandsFor(m, found, Len(found)),
           NEW F, F = { found[i] : i \in 1..Len(found) }
    PROVE  WeightOf(F, m.id) = Weighed(m).score
<1> DEFINE N == Len(found)
           D == OfChunk(F, m.id)
           b == BestOf(F, m.id)
           sources == { x.source : x \in D }
<1>1. \A x : x \in D <=> \E i \in 1..N : found[i].id = m.id /\ x = found[i]
  BY DEF OfChunk
<1>2. \A x \in D : x \in Match /\ x.score \in Int /\ x.id = m.id /\ x.source \in {"vector", "keyword"}
  BY <1>1, FindingFacts
<1>3. m \in Match /\ m.score \in Int
  BY DEF Match
<1>4. \E x \in D : x.score = m.score
  BY <1>1 DEF StandsFor
<1>5. \A x \in D : x.score <= m.score
  BY <1>1 DEF StandsFor
<1>6. b \in D /\ \A x \in D : x.score <= b.score
  <2>1. \E x \in D : \A y \in D : y.score <= x.score
    BY <1>4, <1>5
  <2>2. b = CHOOSE x \in D : \A y \in D : y.score <= x.score
    BY Zenon DEF BestOf
  <2> HIDE DEF D, b
  <2> QED
    BY <2>1, <2>2
<1> HIDE DEF D, b
<1>7. b \in Match /\ b.id = m.id /\ b.score = m.score /\ b.source \in {"vector", "keyword"}
  BY <1>2, <1>3, <1>4, <1>5, <1>6
<1>8. Cardinality(sources) = 2 <=> m.source = "hybrid"
  <2>1. sources \in SUBSET {"vector", "keyword"} /\ sources # {}
    BY <1>2, <1>4
  <2>2. Cardinality(sources) = 2 <=> \E x, y \in sources : x # y
    BY <2>1, TwoSources
  <2>3. ASSUME m.source = "hybrid" PROVE \E x, y \in sources : x # y
    <3>1. PICK i \in 1..N, j \in 1..N : found[i].id = m.id /\ found[j].id = m.id /\ found[i].source # found[j].source
      BY <2>3 DEF StandsFor
    <3>2. found[i] \in D /\ found[j] \in D
      BY <1>1, <3>1
    <3> QED
      BY <3>1, <3>2
  <2>4. ASSUME m.source # "hybrid" PROVE \A x \in sources : x = m.source
    BY <1>1, <2>4 DEF StandsFor
  <2> QED
    BY <2>2, <2>3, <2>4
<1> HIDE DEF sources
<1> DEFINE c == [b EXCEPT !.source = IF Cardinality(sources) = 2 THEN "hybrid" ELSE @]
<1>9. c \in Match /\ c.id = m.id /\ c.score = m.score /\ (c.source = "hybrid" <=> m.source = "hybrid")
  <2>1. CASE Cardinality(sources) = 2
    <3>1. c = [b EXCEPT !.source = "hybrid"]
      BY <2>1
    <3> QED
      BY <1>7, <1>8, <2>1, <3>1 DEF Match
  <2>2. CASE Cardinality(sources) # 2
    <3>1. c = b
      BY <1>7, <2>2 DEF Match
    <3> QED
      BY <1>7, <1>8, <2>2, <3>1
  <2> QED
    BY <2>1, <2>2
<1>10. WeightOf(F, m.id) = Weighed(c).score
  BY Zenon DEF WeightOf, D, b, sources
<1> HIDE DEF c
<1> QED
  BY <1>3, <1>9, <1>10, WeighedAlike

-----------------------------------------------------------------------------
(* The reranker's scores. *)

LEMMA QuotientsGrow ==
    ASSUME NEW x \in Int, NEW y \in Int, y > 0, x >= y
    PROVE  (y * 230) \div (y + 8000) <= (x * 230) \div (x + 8000)
<1> DEFINE p == (x * 230) \div (x + 8000)
           q == (y * 230) \div (y + 8000)
<1>1. p \in Int /\ q \in Int
  OBVIOUS
<1>2. x * 230 < (x + 8000) * (p + 1)
  OBVIOUS
<1>3. (y + 8000) * q <= y * 230
  OBVIOUS
<1> HIDE DEF p, q
<1>4. q <= 230
  <2> SUFFICES ASSUME q >= 231 PROVE FALSE
    BY <1>1
  <2>1. (y + 8000) * q >= (y + 8000) * 231
    <3> DEFINE a == y + 8000
               b == q - 231
    <3>1. a \in Nat /\ b \in Nat
      BY <1>1
    <3> HIDE DEF a, b
    <3>2. a * b >= 0
      BY <3>1
    <3> QED
      BY <1>1, <3>2 DEF a, b
  <2> QED
    BY <1>1, <1>3, <2>1
<1>5. (x - y) * (230 - q) >= 0
  <2> DEFINE a == x - y
             b == 230 - q
  <2>1. a \in Nat /\ b \in Nat
    BY <1>1, <1>4
  <2> HIDE DEF a, b
  <2>2. a * b >= 0
    BY <2>1
  <2> QED
    BY <2>2 DEF a, b
<1>6. ASSUME p < q PROVE FALSE
  <2>1. (x + 8000) * (p + 1) <= (x + 8000) * q
    <3> DEFINE a == x + 8000
               b == q - (p + 1)
    <3>1. a \in Nat /\ b \in Nat
      BY <1>1, <1>6
    <3> HIDE DEF a, b
    <3>2. a * b >= 0
      BY <3>1
    <3> QED
      BY <1>1, <3>2 DEF a, b
  <2>2. x * 230 < (x + 8000) * q
    BY <1>1, <1>2, <2>1
  <2> QED
    BY <1>1, <1>3, <1>5, <2>2
<1> QED
  BY <1>1, <1>6 DEF p, q

LEMMA NormalizedInt ==
    ASSUME NEW x \in Int, NEW v \in Int
    PROVE  NormalizeRerankScore(x, v) \in Int
<1>1. x > 0 => (x * 230) \div 1000 \in Int /\ (x * 230) \div (x + 8000) \in Int
  OBVIOUS
<1> QED
  BY <1>1 DEF NormalizeRerankScore, AtMost

LEMMA NormalizedKeepsOrder ==
    ASSUME NEW x \in Int, NEW y \in Int, y > 0, x >= y, (x <= 1000) = (y <= 1000),
           NEW v, NEW w
    PROVE  NormalizeRerankScore(x, v) >= NormalizeRerankScore(y, w)
<1>1. CASE x <= 1000 /\ y <= 1000
  <2>1. (y * 230) \div 1000 <= (x * 230) \div 1000
    OBVIOUS
  <2>2. (y * 230) \div 1000 \in Int /\ (x * 230) \div 1000 \in Int
    OBVIOUS
  <2> QED
    BY <1>1, <2>1, <2>2 DEF NormalizeRerankScore
<1>2. CASE ~(x <= 1000) /\ ~(y <= 1000)
  <2> DEFINE p == (x * 230) \div (x + 8000)
             q == (y * 230) \div (y + 8000)
  <2>1. q <= p
    BY QuotientsGrow
  <2>2. p \in Int /\ q \in Int
    OBVIOUS
  <2>3. NormalizeRerankScore(x, v) = AtMost(970, 740 + p) /\ NormalizeRerankScore(y, w) = AtMost(970, 740 + q)
    BY <1>2 DEF NormalizeRerankScore
  <2> HIDE DEF p, q
  <2> QED
    BY <2>1, <2>2, <2>3 DEF AtMost
<1> QED
  BY <1>1, <1>2

-----------------------------------------------------------------------------
(* What a goroutine may return. *)

LEMMA ListFacts ==
    ASSUME NEW ids, NEW bound \in Nat, NEW list \in SeqOf(ids, bound)
    PROVE  \E n \in Nat : list \in [1..n -> ids]
<1>1. PICK n \in 0..bound : list \in [1..n -> ids]
  BY DEF SeqOf
<1> QED
  BY <1>1

LEMMA VectorFindings ==
    ASSUME NEW r \in VectorResults
    PROVE  r \in Seq(Finding)
<1>1. PICK list \in SeqOf(Chunks, TopK) : \E scores \in [Range(list) -> VectorScores] :
        r = [i \in DOMAIN list |-> FoundBy("vector", list[i], scores[list[i]])]
  BY DEF VectorResults
<1>2. PICK scores \in [Range(list) -> VectorScores] :
        r = [i \in DOMAIN list |-> FoundBy("vector", list[i], scores[list[i]])]
  BY <1>1
<1>3. PICK n \in Nat : list \in [1..n -> Chunks]
  BY ListFacts, RankBoundsAssumption
<1>4. \A i \in 1..n : scores[list[i]] \in Int /\ list[i] \in Chunks
  BY <1>2, <1>3, ScoresAssumption DEF Range
<1>5. \A i \in 1..n : FoundBy("vector", list[i], scores[list[i]]) \in Finding
  BY <1>4 DEF FoundBy, Finding
<1> QED
  BY <1>2, <1>3, <1>5

LEMMA IndexFindings ==
    ASSUME NEW r \in IndexResults
    PROVE  r \in Seq(Finding)
<1>1. PICK list \in SeqOf(Chunks, TopK) : \E scores \in [Range(list) -> KeywordScores] :
        r = [i \in DOMAIN list |-> FoundBy("keyword", list[i], NormalizeOpenSearchScore(scores[list[i]]))]
  BY DEF IndexResults
<1>2. PICK scores \in [Range(list) -> KeywordScores] :
        r = [i \in DOMAIN list |-> FoundBy("keyword", list[i], NormalizeOpenSearchScore(scores[list[i]]))]
  BY <1>1
<1>3. PICK n \in Nat : list \in [1..n -> Chunks]
  BY ListFacts, RankBoundsAssumption
<1>4. ASSUME NEW x \in Int PROVE NormalizeOpenSearchScore(x) \in Int
  <2>1. x > 0 => (x * 250) \div (x + 8000) \in Int
    OBVIOUS
  <2> QED
    BY <2>1 DEF NormalizeOpenSearchScore, AtMost
<1>5. \A i \in 1..n : scores[list[i]] \in Int /\ list[i] \in Chunks
  BY <1>2, <1>3, ScoresAssumption DEF Range
<1>6. \A i \in 1..n : FoundBy("keyword", list[i], NormalizeOpenSearchScore(scores[list[i]])) \in Finding
  BY <1>4, <1>5 DEF FoundBy, Finding
<1> QED
  BY <1>2, <1>3, <1>6

LEMMA TableFindings ==
    ASSUME NEW r \in TableResults
    PROVE  r \in Seq(Finding)
<1> DEFINE ids == { id \in Chunks : HasWord(id) }
<1>1. PICK list \in SeqOf(ids, TopK) : r = [i \in DOMAIN list |-> FoundBy("keyword", list[i], TableScore(list[i]))]
  BY DEF TableResults
<1> HIDE DEF ids
<1>2. PICK n \in Nat : list \in [1..n -> ids]
  BY ListFacts, RankBoundsAssumption
<1>3. ASSUME NEW id \in Chunks PROVE TableScore(id) \in Int
  <2>1. Found[id] \in Aspects
    BY FoundAssumption DEF Chunks
  <2>2. Found[id].inQuestion \in Int /\ Found[id].inContent \in Int /\ Found[id].inRow \in Int
    BY <2>1 DEF Aspects
  <2> QED
    BY <2>2 DEF TableScore, AtMost
<1>4. \A i \in 1..n : FoundBy("keyword", list[i], TableScore(list[i])) \in Finding
  BY <1>2, <1>3 DEF FoundBy, Finding, ids
<1> QED
  BY <1>1, <1>2, <1>4

\* Each chunk once.
Once(s) == \A i, j \in 1..Len(s) : s[i].id = s[j].id => i = j

\* No match behind one with a lower score.
Sorted(s) == \A i, j \in 1..Len(s) : i <= j => s[i].score >= s[j].score

\* As the merge leaves it.
Unranked(s) == \A i \in 1..Len(s) : ~s[i].reranked

\* The loop of mergeRAGMatches is done: what is kept of the merged.
Chosen(merged) == FirstOf(TopK, BestFirst([i \in DOMAIN merged |-> Weighed(merged[i])]))

\* The best of the chunks in F, each once.
SelectsBest(r, F) ==
    LET ids == { m.id : m \in F }
    IN  /\ r \in Seq(Match) /\ Once(r) /\ Sorted(r) /\ Unranked(r) /\ Len(r) <= TopK
        /\ Ids(r) \subseteq ids
        /\ Len(r) = AtMost(TopK, Cardinality(ids))
        /\ \A i \in 1..Len(r) : /\ r[i].score = WeightOf(F, r[i].id)
                                /\ \A id \in ids \ Ids(r) : WeightOf(F, id) <= r[i].score

Items(s) == { s[i] : i \in 1..Len(s) }

LEMMA MergeSelects ==
    ASSUME NEW found \in Seq(Finding)
    PROVE  SelectsBest(Chosen(MergedUpTo(found)[Len(found)]), Items(found))
<1> DEFINE merged == MergedUpTo(found)[Len(found)]
           r == Chosen(merged)
           F == Items(found)
           ids == { m.id : m \in F }
           n == Len(merged)
           w == [i \in 1..n |-> Weighed(merged[i])]
           L == Len(r)
<1>1. MergesTo(merged, found, Len(found))
  BY LoopMerges
<1> HIDE DEF merged
<1>1a. F = { found[i] : i \in 1..Len(found) }
  BY DEF Items
<1> HIDE DEF F
<1>2. /\ merged \in Seq(Match) /\ n \in Nat /\ DOMAIN merged = 1..n
      /\ \A i \in 1..n : merged[i] \in Match /\ StandsFor(merged[i], found, Len(found))
      /\ \A i, j \in 1..n : merged[i].id = merged[j].id => i = j
  BY <1>1 DEF MergesTo
<1>3. \A id : id \in ids <=> \E i \in 1..n : merged[i].id = id
  <2>1. ASSUME NEW id \in ids PROVE \E i \in 1..n : merged[i].id = id
    <3>1. PICK j \in 1..Len(found) : found[j].id = id
      BY <1>1a
    <3> QED
      BY <1>1, <3>1 DEF MergesTo
  <2>2. ASSUME NEW i \in 1..n PROVE merged[i].id \in ids
    <3>1. PICK j \in 1..Len(found) : found[j].id = merged[i].id
      BY <1>2 DEF StandsFor
    <3> QED
      BY <1>1a, <3>1
  <2> QED
    BY <2>1, <2>2
<1>4. \A i \in 1..n : /\ w[i] \in Match /\ w[i].id = merged[i].id /\ w[i].score \in Int /\ ~w[i].reranked
                      /\ WeightOf(F, w[i].id) = w[i].score
  <2> SUFFICES ASSUME NEW i \in 1..n
               PROVE  /\ Weighed(merged[i]) \in Match /\ Weighed(merged[i]).id = merged[i].id
                      /\ Weighed(merged[i]).score \in Int /\ ~Weighed(merged[i]).reranked
                      /\ WeightOf(F, merged[i].id) = Weighed(merged[i]).score
    OBVIOUS
  <2>1. Weighed(merged[i]) \in Match /\ Weighed(merged[i]).id = merged[i].id /\ ~Weighed(merged[i]).reranked
    BY <1>2, WeighedMatch DEF StandsFor
  <2>2. \A m \in Match : m.score \in Int
    BY DEF Match
  <2>3. WeightOf(F, merged[i].id) = Weighed(merged[i]).score
    BY <1>1a, <1>2, WeightOfMerged
  <2> QED
    BY <2>1, <2>2, <2>3
<1>5. DOMAIN w = 1..n
  OBVIOUS
<1>6. r = FirstOf(TopK, BestFirst(w))
  BY <1>2 DEF Chosen
<1> HIDE DEF r, ids
<1> HIDE DEF w
<1> HIDE DEF n
<1>6a. PICK f : Sorts(f, BestFirst(w), w, n)
  BY <1>2, <1>4, <1>5, BestFirstSorts
<1>7. /\ f \in [1..n -> 1..n]
      /\ BestFirst(w) = [k \in 1..n |-> w[f[k]]]
      /\ \A k, l \in 1..n : k <= l => w[f[k]].score >= w[f[l]].score
      /\ \A k, l \in 1..n : f[k] = f[l] => k = l
      /\ \A j \in 1..n : \E k \in 1..n : f[k] = j
  BY <1>6a DEF Sorts
<1>8. BestFirst(w) \in Seq(Match) /\ Len(BestFirst(w)) = n /\ \A k \in 1..n : BestFirst(w)[k] = w[f[k]]
  <2>1. n \in Nat /\ \A k \in 1..n : f[k] \in 1..n /\ w[f[k]] \in Match
    BY <1>2, <1>4, <1>7
  <2>2. BestFirst(w) = [k \in 1..n |-> w[f[k]]]
    BY <1>7
  <2> QED
    BY <2>1, <2>2
<1>9. /\ r \in Seq(Match) /\ L = AtMost(TopK, n) /\ L <= TopK /\ L <= n
      /\ \A i \in 1..L : r[i] = w[f[i]]
  <2>1. TopK \in Nat
    BY RankBoundsAssumption
  <2>2. /\ r \in Seq(Match) /\ L = AtMost(TopK, n) /\ L <= TopK /\ L <= n
        /\ \A i \in 1..L : r[i] = BestFirst(w)[i]
    <3> DEFINE b == BestFirst(w)
    <3>1. b \in Seq(Match) /\ Len(b) = n /\ r = FirstOf(TopK, b)
      BY <1>6, <1>8
    <3> HIDE DEF b
    <3> DEFINE c == FirstOf(TopK, b)
    <3>1a. /\ c \in Seq(Match) /\ Len(c) = AtMost(TopK, Len(b)) /\ Len(c) <= TopK /\ Len(c) <= Len(b)
          /\ \A i \in 1..Len(c) : c[i] = b[i]
      BY <2>1, <3>1, FirstOfKeeps
    <3> HIDE DEF c
    <3>2. /\ r \in Seq(Match) /\ Len(r) = AtMost(TopK, n) /\ Len(r) <= TopK /\ Len(r) <= n
          /\ \A i \in 1..Len(r) : r[i] = b[i]
      BY <3>1a, <3>1 DEF c
    <3> QED
      BY <3>2 DEF b
  <2>3. n \in Nat /\ L \in Nat
    BY <1>2, <2>2
  <2>4. \A i \in 1..L : i \in 1..n
    BY <2>2, <2>3
  <2> HIDE DEF L
  <2> QED
    BY <1>8, <2>2, <2>4
<1>10. L \in Nat /\ TopK \in Nat /\ DOMAIN r = 1..L
  BY <1>9, RankBoundsAssumption
<1> HIDE DEF L
<1>11. \A i \in 1..L : i \in 1..n /\ f[i] \in 1..n
  BY <1>2, <1>7, <1>9, <1>10
<1>12. Once(r)
  <2> SUFFICES ASSUME NEW i \in 1..L, NEW j \in 1..L, r[i].id = r[j].id PROVE i = j
    BY DEF Once, L
  <2>1. merged[f[i]].id = merged[f[j]].id
    BY <1>4, <1>9, <1>11
  <2>2. f[i] = f[j]
    BY <1>2, <1>11, <2>1
  <2> QED
    BY <1>7, <1>11, <2>2
<1>13. Sorted(r)
  <2> SUFFICES ASSUME NEW i \in 1..L, NEW j \in 1..L, i <= j PROVE r[i].score >= r[j].score
    BY DEF Sorted, L
  <2>1. w[f[i]].score >= w[f[j]].score
    BY <1>7, <1>11
  <2> QED
    BY <1>9, <2>1
<1>13a. Unranked(r)
  BY <1>4, <1>9, <1>11 DEF Unranked, L
<1>14. Ids(r) \subseteq ids
  <2>1. ASSUME NEW i \in 1..L PROVE r[i].id \in ids
    <3>1. r[i] = w[f[i]] /\ f[i] \in 1..n
      BY <1>9, <1>11
    <3>2. r[i].id = merged[f[i]].id
      BY <1>4, <3>1
    <3> QED
      BY <1>3, <3>1, <3>2
  <2> QED
    BY <1>10, <2>1 DEF Ids
<1>15. Cardinality(ids) = n
  <2>1. Ids(merged) = ids
    <3>1. Ids(merged) = { merged[i].id : i \in 1..n }
      BY <1>2 DEF Ids
    <3>2. \A id : id \in Ids(merged) <=> id \in ids
      BY <1>3, <3>1
    <3> QED
      BY <3>2, Zenon
  <2> QED
    BY <1>2, <2>1, IdsCount DEF n
<1>16. \A i \in 1..L : r[i].score = WeightOf(F, r[i].id)
  BY <1>4, <1>9, <1>11
<1>17. ASSUME NEW i \in 1..L, NEW id \in ids \ Ids(r) PROVE WeightOf(F, id) <= r[i].score
  <2>1. PICK j \in 1..n : merged[j].id = id
    BY <1>3
  <2>2. PICK k \in 1..n : f[k] = j
    BY <1>7
  <2>3. k \notin 1..L
    <3>1. ASSUME k \in 1..L PROVE FALSE
      <4>1. r[k].id = id
        BY <1>4, <1>9, <2>1, <2>2, <3>1
      <4> QED
        BY <1>10, <3>1, <4>1 DEF Ids
    <3> QED
      BY <3>1
  <2>4. i <= k
    BY <1>2, <1>10, <2>3
  <2>5. w[f[i]].score >= w[f[k]].score
    BY <1>7, <1>11, <2>4
  <2>6. WeightOf(F, id) = w[j].score
    BY <1>4, <2>1
  <2>7. r[i].score = w[f[i]].score /\ w[f[i]].score \in Int /\ w[j].score \in Int
    BY <1>4, <1>9, <1>11
  <2> QED
    BY <2>2, <2>5, <2>6, <2>7
<1> QED
  BY <1>9, <1>12, <1>13, <1>13a, <1>14, <1>15, <1>16, <1>17 DEF L, SelectsBest, merged, r, F, ids

-----------------------------------------------------------------------------
(* The rerank. *)

\* The reranked matches before the others; among the others no match behind one with a lower
\* score, nor among the reranked ones if these are ordered.
Layered(s, ordered) ==
    \A i, j \in 1..Len(s) : i <= j =>
        /\ s[j].reranked => s[i].reranked
        /\ ~s[i].reranked => s[i].score >= s[j].score
        /\ s[j].reranked /\ ordered => s[i].score >= s[j].score

\* What the reranker makes of ms, apart from the order.
Reordered(r, ms) ==
    /\ r \in Seq(Match) /\ Len(ms) <= Len(r) /\ Len(r) <= TopK
    /\ Ids(r) \subseteq Ids(ms)
    /\ \A i, j \in 1..Len(r) : i # j /\ r[i].id = r[j].id => r[i].reranked
    /\ \A i \in 1..Len(r) : ~r[i].reranked => \E k \in 1..Len(ms) : r[i] = ms[k]

LEMMA RankingFacts ==
    ASSUME NEW ranking \in Rankings
    PROVE  \E n \in Nat :
             /\ DOMAIN ranking = 1..n
             /\ \A i \in 1..n : ranking[i].id \in Documents \cup Strays /\ ranking[i].score \in Int
<1> DEFINE items == [id : Documents \cup Strays, score : RerankScores]
<1>1. ranking \in SeqOf(items, MaxRanking)
  BY DEF Rankings
<1> HIDE DEF items
<1>2. PICK n \in Nat : ranking \in [1..n -> items]
  BY <1>1, ListFacts, RankBoundsAssumption
<1>3. \A i \in items : i.id \in Documents \cup Strays /\ i.score \in Int
  BY ScoresAssumption DEF items
<1> QED
  BY <1>2, <1>3

LEMMA DocumentsFound ==
    ASSUME matches \in Seq(Match)
    PROVE  Documents \subseteq Ids(matches)
<1>1. MaxDocuments \in Nat
  BY RankBoundsAssumption
<1>2. /\ FirstOf(MaxDocuments, matches) \in Seq(Match)
      /\ Len(FirstOf(MaxDocuments, matches)) <= Len(matches)
      /\ \A i \in 1..Len(FirstOf(MaxDocuments, matches)) : FirstOf(MaxDocuments, matches)[i] = matches[i]
  BY <1>1, FirstOfKeeps
<1> DEFINE s == FirstOf(MaxDocuments, matches)
<1> HIDE DEF s
<1>3. s \in Seq(Match) /\ Len(s) <= Len(matches) /\ \A i \in 1..Len(s) : s[i] = matches[i]
  BY <1>2 DEF s
<1>4. Documents = { m.id : m \in { k \in Range(s) : HasText(k.id) } }
  BY DEF Documents, s
<1>5. \A m \in Range(s) : \E i \in 1..Len(matches) : m = matches[i]
  BY <1>3 DEF Range
<1> QED
  BY <1>4, <1>5 DEF Ids

LEMMA RerankKeeps ==
    ASSUME matches \in Seq(Match), Once(matches), Sorted(matches), Unranked(matches),
           Len(matches) <= TopK, NEW ranking \in Rankings, NEW r, r = Reranked(ranking)
    PROVE  Reordered(r, matches) /\ Layered(r, OnOneScale(ranking))
<1> DEFINE P == { i \in DOMAIN ranking : ranking[i].id \in Documents }
           known == Only(ranking, P)
           old(id) == matches[CHOOSE i \in DOMAIN matches : matches[i].id = id]
           New(m) == [old(m.id) EXCEPT !.score = NormalizeRerankScore(m.score, @), !.reranked = TRUE]
           first == [i \in DOMAIN known |-> New(known[i])]
           Q == { i \in DOMAIN matches : matches[i].id \notin Ids(first) }
           rest == Only(matches, Q)
           N == Len(matches)
           K == Cardinality(P)
           M == Cardinality(Q)
<1>1. r = FirstOf(TopK, first \o rest)
  BY Zenon DEF Reranked
<1>2. PICK n \in Nat : /\ DOMAIN ranking = 1..n
             /\ \A i \in 1..n : ranking[i].id \in Documents \cup Strays /\ ranking[i].score \in Int
  BY RankingFacts
<1>3. /\ N \in Nat /\ DOMAIN matches = 1..N
      /\ \A i \in 1..N : matches[i] \in Match
      /\ \A i, j \in 1..N : matches[i].id = matches[j].id => i = j
  BY DEF Once
<1>4. Documents \subseteq Ids(matches)
  BY DocumentsFound
<1>5. P \in SUBSET (1..n)
  BY <1>2
<1>6. \A i \in P : ranking[i].id \in Documents
  OBVIOUS
<1>7. \A i \in 1..n : ranking[i].id \in Documents => i \in P
  BY <1>2
<1> HIDE DEF P
<1>7a. PICK f : Keeps(f, known, ranking, P, K)
  BY <1>5, OnlyKeepsOrder
<1> HIDE DEF known, K
<1>8. /\ K \in Nat /\ f \in [1..K -> P]
      /\ known = [k \in 1..K |-> ranking[f[k]]]
      /\ \A k, l \in 1..K : k <= l <=> f[k] <= f[l]
      /\ \A j \in P : \E k \in 1..K : f[k] = j
  BY <1>7a DEF Keeps
<1>9. \A k \in 1..K : f[k] \in 1..n /\ f[k] \in P /\ known[k] = ranking[f[k]] /\ known[k].id \in Documents
  BY <1>5, <1>6, <1>8
<1>10. \A id \in Documents : old(id) \in Match /\ old(id).id = id
  <2>1. \A id \in Documents : \E i \in DOMAIN matches : matches[i].id = id
    BY <1>4 DEF Ids
  <2> QED
    BY <1>3, <2>1
<1> HIDE DEF old
<1>11. ASSUME NEW k \in 1..K
       PROVE  /\ New(known[k]) \in Match /\ New(known[k]).id = known[k].id /\ New(known[k]).reranked
              /\ New(known[k]).score = NormalizeRerankScore(known[k].score, old(known[k].id).score)
  <2> DEFINE o == old(known[k].id)
  <2>1. o \in [id : Chunks, score : Int, source : {"vector", "keyword", "hybrid"}, reranked : BOOLEAN]
    BY <1>9, <1>10 DEF Match
  <2>2. o.id = known[k].id
    BY <1>9, <1>10
  <2>3. NormalizeRerankScore(known[k].score, o.score) \in Int
    <3>1. known[k].score \in Int /\ o.score \in Int
      BY <1>2, <1>9, <2>1
    <3> QED
      BY <3>1, NormalizedInt
  <2>4. New(known[k]) = [o EXCEPT !.score = NormalizeRerankScore(known[k].score, o.score), !.reranked = TRUE]
    BY <2>1
  <2> HIDE DEF o
  <2>5. /\ New(known[k]) \in Match /\ New(known[k]).id = o.id /\ New(known[k]).reranked
        /\ New(known[k]).score = NormalizeRerankScore(known[k].score, o.score)
    BY <2>1, <2>3, <2>4 DEF Match
  <2> QED
    BY <2>2, <2>5 DEF o
<1>12. DOMAIN known = 1..K
  BY <1>8
<1> HIDE DEF New
<1>13. first \in Seq(Match) /\ Len(first) = K /\ \A k \in 1..K : first[k] = New(known[k])
  BY <1>8, <1>11, <1>12
<1> HIDE DEF first
<1>15. \A k \in 1..K : first[k].id \in Documents
  BY <1>9, <1>11, <1>13
<1>16. Q \in SUBSET (1..N)
  BY <1>3
<1>17. \A i \in 1..N : i \in Q <=> matches[i].id \notin Ids(first)
  BY <1>3
<1> HIDE DEF Q
<1>17a. PICK g : Keeps(g, rest, matches, Q, M)
  BY <1>3, <1>16, OnlyKeepsOrder
<1> HIDE DEF rest, M
<1>18. /\ M \in Nat /\ g \in [1..M -> Q]
       /\ rest = [k \in 1..M |-> matches[g[k]]]
       /\ \A k, l \in 1..M : k <= l <=> g[k] <= g[l]
       /\ \A j \in Q : \E k \in 1..M : g[k] = j
  BY <1>17a DEF Keeps
<1>19. /\ rest \in Seq(Match) /\ Len(rest) = M
       /\ \A k \in 1..M : rest[k] = matches[g[k]] /\ g[k] \in 1..N /\ g[k] \in Q
  <2>1. M \in Nat /\ rest = [k \in 1..M |-> matches[g[k]]]
    BY <1>18
  <2>2. \A k \in 1..M : g[k] \in 1..N /\ g[k] \in Q
    BY <1>16, <1>18
  <2>3. \A k \in 1..M : matches[g[k]] \in Match
    BY <1>3, <2>2
  <2>4. rest \in Seq(Match) /\ Len(rest) = M
    BY <2>1, <2>3
  <2> QED
    BY <2>1, <2>2, <2>4
<1>20. \A k, l \in 1..M : rest[k].id = rest[l].id => k = l
  <2> SUFFICES ASSUME NEW k \in 1..M, NEW l \in 1..M, rest[k].id = rest[l].id PROVE k = l
    OBVIOUS
  <2>1. g[k] = g[l] /\ g[k] \in Int
    BY <1>3, <1>19
  <2>2. k <= l /\ l <= k
    BY <1>18, <2>1
  <2> QED
    BY <1>18, <2>2
<1> DEFINE s == first \o rest
<1>21. /\ s \in Seq(Match) /\ Len(s) = K + M
       /\ \A i \in 1..K : s[i] = first[i]
       /\ \A i \in K+1..K+M : s[i] = rest[i - K] /\ i - K \in 1..M
  <2>1. K \in Nat /\ first \in Seq(Match) /\ Len(first) = K
    BY <1>8, <1>13
  <2>2. M \in Nat /\ rest \in Seq(Match) /\ Len(rest) = M
    BY <1>18, <1>19
  <2> QED
    BY <2>1, <2>2
<1> HIDE DEF s, N
<1>22. \A k \in 1..K, l \in 1..M : first[k].id # rest[l].id
  <2>1. DOMAIN first = 1..K
    BY <1>13
  <2>2. \A k \in 1..K : first[k].id \in Ids(first)
    BY <2>1 DEF Ids
  <2>3. \A l \in 1..M : rest[l].id \notin Ids(first)
    BY <1>17, <1>19
  <2> QED
    BY <2>2, <2>3
<1>23. /\ \A i \in 1..K : s[i].reranked
       /\ \A i \in K+1..K+M : ~s[i].reranked /\ s[i] = matches[g[i - K]] /\ g[i - K] \in 1..N
  <2>1. \A k \in 1..M : ~rest[k].reranked
    BY <1>19 DEF Unranked, N
  <2> QED
    BY <1>11, <1>13, <1>19, <1>21, <2>1
<1>23a. \A i \in 1..K+M : i \in 1..K \/ i \in K+1..K+M
  BY <1>8, <1>18
<1>23b. ASSUME NEW i \in 1..K+M, NEW j \in 1..K+M, i # j, s[i].id = s[j].id PROVE s[i].reranked
  <2>1. CASE i \in 1..K
    BY <1>23, <2>1
  <2>2. CASE i \in K+1..K+M /\ j \in K+1..K+M
    <3>1. i - K = j - K
      BY <1>20, <1>21, <1>23b, <2>2
    <3> QED
      BY <1>8, <1>18, <1>23b, <3>1
  <2>3. CASE i \in K+1..K+M /\ j \in 1..K
    BY <1>21, <1>22, <1>23b, <2>3
  <2> QED
    BY <1>23a, <2>1, <2>2, <2>3
<1>24. Ids(s) = Ids(matches)
  <2>1. /\ Ids(s) = { s[i].id : i \in 1..K+M }
        /\ Ids(matches) = { matches[i].id : i \in 1..N }
        /\ Ids(first) = { first[i].id : i \in 1..K }
    <3>1. DOMAIN matches = 1..N /\ DOMAIN first = 1..K /\ DOMAIN s = 1..K+M
      <4>1. DOMAIN first = 1..Len(first) /\ DOMAIN s = 1..Len(s)
        BY <1>13, <1>21
      <4> QED
        BY <1>3, <1>13, <1>21, <4>1
    <3> QED
      BY <3>1, Zenon DEF Ids
  <2>2. ASSUME NEW i \in 1..K+M PROVE s[i].id \in Ids(matches)
    <3>1. CASE i \in 1..K
      BY <1>4, <1>15, <1>21, <3>1
    <3>2. CASE i \in K+1..K+M
      BY <1>19, <1>21, <2>1, <3>2
    <3> QED
      BY <1>8, <1>18, <3>1, <3>2
  <2>3. ASSUME NEW i \in 1..N PROVE matches[i].id \in Ids(s)
    <3>1. CASE i \in Q
      <4>1. PICK k \in 1..M : g[k] = i
        BY <1>18, <3>1
      <4>2. K + k \in 1..K+M /\ K + k \in K+1..K+M /\ K + k - K = k
        BY <1>8, <1>18
      <4>3. s[K + k] = matches[i]
        <5> DEFINE p == K + k
        <5>1. p \in K+1..K+M /\ p - K = k
          BY <1>8, <1>18
        <5> HIDE DEF p
        <5>2. s[p] = rest[k]
          BY <1>21, <5>1
        <5>3. rest[k] = matches[i]
          BY <1>19, <4>1
        <5> QED
          BY <5>2, <5>3 DEF p
      <4> QED
        BY <2>1, <4>2, <4>3
    <3>2. CASE i \notin Q
      <4>1. PICK k \in 1..K : first[k].id = matches[i].id
        BY <1>17, <2>1, <3>2
      <4>2. k \in 1..K+M
        BY <1>8, <1>18
      <4> QED
        BY <1>21, <2>1, <4>1, <4>2
    <3> QED
      BY <3>1, <3>2
  <2> QED
    BY <2>1, <2>2, <2>3
<1>25. N <= Len(s)
  <2>1. Cardinality(Ids(s)) <= Len(s)
    BY <1>21, IdsAtMost
  <2>2. Cardinality(Ids(matches)) = N
    BY <1>3, IdsCount DEF N
  <2> QED
    BY <1>24, <2>1, <2>2
<1>26. /\ r \in Seq(Match) /\ Len(r) <= TopK /\ Len(r) <= K + M /\ N <= Len(r)
       /\ \A i \in 1..Len(r) : r[i] = s[i] /\ i \in 1..K+M
  <2>1. TopK \in Nat /\ N <= TopK /\ N \in Nat
    BY <1>3, RankBoundsAssumption DEF N
  <2>2. r = FirstOf(TopK, s)
    BY <1>1 DEF s
  <2>3. /\ r \in Seq(Match) /\ Len(r) = AtMost(TopK, Len(s)) /\ Len(r) <= TopK /\ Len(r) <= Len(s)
        /\ \A i \in 1..Len(r) : r[i] = s[i]
    BY <1>21, <2>1, <2>2, FirstOfKeeps
  <2>4. N <= Len(r)
    BY <1>25, <2>1, <2>3 DEF AtMost
  <2> QED
    BY <1>21, <2>3, <2>4
<1>27. ASSUME OnOneScale(ranking), NEW i \in 1..K, NEW j \in 1..K, i <= j
       PROVE  first[i].score >= first[j].score
  <2> DEFINE x == known[i].score
             y == known[j].score
             v == old(known[i].id).score
             u == old(known[j].id).score
  <2>1. f[i] <= f[j] /\ f[i] \in 1..n /\ f[j] \in 1..n
    BY <1>8, <1>9, <1>27
  <2>2. x \in Int /\ y \in Int
    BY <1>2, <1>9
  <2>3. x >= y /\ y > 0 /\ (x <= 1000) = (y <= 1000)
    <3>1. known[i] = ranking[f[i]] /\ known[j] = ranking[f[j]]
      BY <1>9
    <3>2. /\ f[i] \in DOMAIN ranking /\ ranking[f[i]].id \in Documents
          /\ f[j] \in DOMAIN ranking /\ ranking[f[j]].id \in Documents
      BY <1>2, <1>6, <1>9, <2>1
    <3>3. /\ ranking[f[i]].score >= ranking[f[j]].score
          /\ ranking[f[j]].score > 0
          /\ (ranking[f[i]].score <= 1000) = (ranking[f[j]].score <= 1000)
      BY <1>27, <2>1, <3>2 DEF OnOneScale
    <3> QED
      BY <3>1, <3>3
  <2>4. first[i].score = NormalizeRerankScore(x, v) /\ first[j].score = NormalizeRerankScore(y, u)
    BY <1>11, <1>13
  <2> HIDE DEF x, y, v, u
  <2> QED
    BY <2>2, <2>3, <2>4, NormalizedKeepsOrder
<1>28. ASSUME NEW i \in 1..K+M, NEW j \in 1..K+M, i <= j
       PROVE  /\ s[j].reranked => s[i].reranked
              /\ ~s[i].reranked => s[i].score >= s[j].score
              /\ s[j].reranked /\ OnOneScale(ranking) => s[i].score >= s[j].score
  <2>1. CASE i \in 1..K /\ j \in 1..K
    BY <1>21, <1>23, <1>27, <1>28, <2>1
  <2>2. CASE i \in 1..K /\ j \in K+1..K+M
    BY <1>23, <2>2
  <2>3. CASE i \in K+1..K+M /\ j \in K+1..K+M
    <3> DEFINE a == i - K
               b == j - K
    <3>1. a \in 1..M /\ b \in 1..M /\ a <= b
      BY <1>8, <1>18, <1>28, <2>3
    <3>2. s[i] = matches[g[a]] /\ s[j] = matches[g[b]] /\ g[a] \in 1..N /\ g[b] \in 1..N
      BY <1>23, <2>3
    <3> HIDE DEF a, b
    <3>3. g[a] <= g[b]
      BY <1>18, <3>1
    <3>4. matches[g[a]].score >= matches[g[b]].score
      BY <3>2, <3>3 DEF Sorted, N
    <3>5. ~s[i].reranked /\ ~s[j].reranked
      BY <1>23, <2>3
    <3> QED
      BY <3>2, <3>4, <3>5
  <2>4. CASE i \in K+1..K+M /\ j \in 1..K
    BY <1>8, <1>18, <1>28, <2>4
  <2> QED
    BY <1>23a, <2>1, <2>2, <2>3, <2>4
<1>29. Layered(r, OnOneScale(ranking))
  BY <1>26, <1>28 DEF Layered
<1>30. Ids(r) \subseteq Ids(matches)
  <2>1. \A i \in 1..Len(r) : r[i].id \in Ids(s)
    <3>1. DOMAIN s = 1..K+M
      BY <1>21
    <3> QED
      BY <1>26, <3>1 DEF Ids
  <2>2. DOMAIN r = 1..Len(r)
    BY <1>26
  <2> QED
    BY <1>24, <2>1, <2>2 DEF Ids
<1>31. ASSUME NEW i \in 1..Len(r), ~r[i].reranked PROVE \E k \in 1..N : r[i] = matches[k]
  <2>1. r[i] = s[i] /\ i \in K+1..K+M
    BY <1>23, <1>23a, <1>26, <1>31
  <2> QED
    BY <1>23, <2>1
<1>32. ASSUME NEW i \in 1..Len(r), NEW j \in 1..Len(r), i # j, r[i].id = r[j].id PROVE r[i].reranked
  BY <1>23b, <1>26, <1>32
<1>33. Reordered(r, matches)
  BY <1>26, <1>30, <1>31, <1>32 DEF Reordered, N
<1> QED
  BY <1>29, <1>33

-----------------------------------------------------------------------------
(* The theorems. *)

\* Sent directly: the first of the usable matches is clearly ahead of the second.
ClearlyBest(ms) == ms # <<>> /\ (Head(ms).score >= 930 \/ Len(ms) = 1 \/ Head(ms).score - ms[2].score >= 80)

RankInv ==
    /\ vectorMatches \in Seq(Finding) /\ keywordMatches \in Seq(Finding)
    /\ matches \in Seq(Match) /\ Len(matches) <= TopK
    /\ step = "merged" => Once(matches) /\ Sorted(matches) /\ Unranked(matches)
    /\ Layered(matches, orderly)
    /\ reply = "direct" => step = "decided" /\ ClearlyBest(UsableRAGMatches(matches))

LEMMA RankInvInit == RankInit => RankInv
<1> SUFFICES ASSUME RankInit PROVE RankInv
  OBVIOUS
<1>1. vectorMatches \in Seq(Finding) /\ keywordMatches \in Seq(Finding)
  <2>1. vectorMatches \in VectorResults /\ keywordMatches \in IndexResults \cup TableResults
    BY DEF RankInit
  <2> QED
    BY <2>1, VectorFindings, IndexFindings, TableFindings
<1>2. matches = <<>> /\ step = "found" /\ reply = "none"
  BY DEF RankInit
<1>3. Len(<<>>) = 0 /\ <<>> \in Seq(Match) /\ TopK >= 0
  BY RankBoundsAssumption
<1>4. matches \in Seq(Match) /\ Len(matches) = 0
  BY <1>2, <1>3, Zenon
<1>5. Layered(matches, orderly) /\ Len(matches) <= TopK
  BY <1>3, <1>4 DEF Layered
<1> QED
  BY <1>1, <1>2, <1>4, <1>5 DEF RankInv

\* Merge and rerank, as the properties ask of them.
LEMMA MergeStep ==
    ASSUME RankInv, Merge
    PROVE  SelectsBest(matches', Range(vectorMatches) \cup Range(keywordMatches))
<1> DEFINE F == Range(vectorMatches) \cup Range(keywordMatches)
           found == vectorMatches \o keywordMatches
<1>1. matches' = Chosen(MergedUpTo(found)[Len(found)])
  BY Zenon DEF Merge, Merged, Chosen
<1>2. found \in Seq(Finding)
  BY DEF RankInv
<1>3. F = Items(found)
  <2> DEFINE v == vectorMatches
             k == keywordMatches
             n == Len(v)
             m == Len(k)
  <2>1. v \in Seq(Finding) /\ k \in Seq(Finding) /\ n \in Nat /\ m \in Nat
    BY DEF RankInv
  <2>2. Len(found) = n + m /\ (\A i \in 1..n : found[i] = v[i]) /\ (\A i \in n+1..n+m : found[i] = k[i - n])
    BY <2>1
  <2>3. Range(v) = { v[i] : i \in 1..n } /\ Range(k) = { k[i] : i \in 1..m }
    BY <2>1 DEF Range
  <2> HIDE DEF v, k, n, m, found
  <2>4. ASSUME NEW x \in Range(v) PROVE \E i \in 1..n+m : x = found[i]
    <3>1. PICK i \in 1..n : x = v[i]
      BY <2>3
    <3>2. i \in 1..n+m
      BY <2>1
    <3> QED
      BY <2>2, <3>1, <3>2
  <2>5. ASSUME NEW x \in Range(k) PROVE \E i \in 1..n+m : x = found[i]
    <3>1. PICK i \in 1..m : x = k[i]
      BY <2>3
    <3> DEFINE p == n + i
    <3>2. p \in 1..n+m /\ p \in n+1..n+m /\ p - n = i
      BY <2>1
    <3> HIDE DEF p
    <3>3. found[p] = k[i]
      BY <2>2, <3>2
    <3> QED
      BY <3>1, <3>2, <3>3
  <2>6. ASSUME NEW i \in 1..n+m PROVE found[i] \in Range(v) \cup Range(k)
    <3>1. CASE i \in 1..n
      BY <2>2, <2>3, <3>1
    <3>2. CASE i \in n+1..n+m
      <4>1. i - n \in 1..m
        BY <2>1, <3>2
      <4> QED
        BY <2>2, <2>3, <3>2, <4>1
    <3> QED
      BY <2>1, <3>1, <3>2
  <2>7. Range(v) \cup Range(k) = Items(found)
    BY <2>2, <2>4, <2>5, <2>6 DEF Items
  <2> QED
    BY <2>7 DEF v, k
<1> HIDE DEF found
<1> QED
  BY <1>1, <1>2, <1>3, MergeSelects

LEMMA RerankStep ==
    ASSUME RankInv, Rerank
    PROVE  Reordered(matches', matches) /\ Layered(matches', orderly')
<1>1. /\ matches \in Seq(Match) /\ Len(matches) <= TopK /\ Layered(matches, orderly)
      /\ Once(matches) /\ Sorted(matches) /\ Unranked(matches)
  BY DEF RankInv, Rerank
<1>2. CASE UNCHANGED <<matches, orderly>>
  <2>1. Reordered(matches, matches)
    BY <1>1 DEF Reordered, Once
  <2> QED
    BY <1>1, <1>2, <2>1
<1>3. CASE \E ranking \in Rankings : matches' = Reranked(ranking) /\ orderly' = OnOneScale(ranking)
  <2>1. PICK ranking \in Rankings : matches' = Reranked(ranking) /\ orderly' = OnOneScale(ranking)
    BY <1>3
  <2> QED
    BY <1>1, <2>1, RerankKeeps
<1> QED
  BY <1>2, <1>3 DEF Rerank

LEMMA RankInvStep == RankInv /\ [RankNext]_rankVars => RankInv'
<1> SUFFICES ASSUME RankInv, [RankNext]_rankVars PROVE RankInv'
  OBVIOUS
<1>1. CASE Merge
  <2>1. /\ matches' \in Seq(Match) /\ Len(matches') <= TopK
        /\ Once(matches') /\ Sorted(matches') /\ Unranked(matches')
    BY <1>1, MergeStep DEF SelectsBest
  <2>2. vectorMatches' = <<>> /\ keywordMatches' = <<>> /\ reply' = reply /\ reply # "direct"
    BY <1>1 DEF Merge, RankInv
  <2>3. <<>> \in Seq(Finding)
    OBVIOUS
  <2>4. vectorMatches' \in Seq(Finding) /\ keywordMatches' \in Seq(Finding)
    BY <2>2, <2>3, Zenon
  <2>5. (Once(matches) /\ Sorted(matches) /\ Unranked(matches))' /\ ~(reply = "direct")'
    BY <2>1, <2>2 DEF Once, Sorted, Unranked
  <2>6. Layered(matches, orderly)'
    BY <2>1 DEF Sorted, Unranked, Layered
  <2> QED
    BY <2>1, <2>4, <2>5, <2>6 DEF RankInv
<1>2. CASE Rerank
  <2>1. matches' \in Seq(Match) /\ Len(matches') <= TopK /\ Layered(matches', orderly') /\ step' = "ranked"
    BY <1>2, RerankStep DEF Reordered, Rerank
  <2>2. vectorMatches' = vectorMatches /\ keywordMatches' = keywordMatches /\ reply' = reply /\ reply # "direct"
    BY <1>2 DEF Rerank, RankInv
  <2>3. Layered(matches, orderly)' /\ ~(reply = "direct")'
    BY <2>1, <2>2 DEF Layered
  <2> QED
    BY <2>1, <2>2, <2>3 DEF RankInv
<1>3. CASE Decide
  <2>1. UNCHANGED <<vectorMatches, keywordMatches, terms, matches, orderly>> /\ step' = "decided"
    BY <1>3 DEF Decide
  <2>2. ASSUME reply' = "direct" PROVE ClearlyBest(UsableRAGMatches(matches))
    <3> DEFINE usable == UsableRAGMatches(matches)
    <3>1. PICK m \in Messages :
            reply' = IF ~RagHasUsableKnowledge(matches) THEN "fallback"
                     ELSE IF ShouldDirectReplyRAG(m, usable) THEN "direct" ELSE "model"
      BY <1>3 DEF Decide
    <3>2. ShouldDirectReplyRAG(m, usable)
      BY <2>2, <3>1
    <3> HIDE DEF usable
    <3>3. ClearlyBest(usable)
      BY <3>2 DEF ShouldDirectReplyRAG, ClearlyBest
    <3> QED
      BY <3>3 DEF usable
  <2>3. UsableRAGMatches(matches)' = UsableRAGMatches(matches)
    BY <2>1 DEF UsableRAGMatches, Only, Arranged, GoodEnough, HasStrongTextEvidence
  <2>4. ClearlyBest(UsableRAGMatches(matches))' <=> ClearlyBest(UsableRAGMatches(matches))
    BY <2>3 DEF ClearlyBest
  <2>5. Layered(matches, orderly)'
    BY <2>1 DEF RankInv, Layered
  <2> QED
    BY <2>1, <2>2, <2>4, <2>5 DEF RankInv
<1>4. CASE UNCHANGED rankVars
  <2>1. UNCHANGED <<vectorMatches, keywordMatches, terms, matches, orderly, step, reply>>
    BY <1>4 DEF rankVars
  <2>2. UsableRAGMatches(matches)' = UsableRAGMatches(matches)
    BY <2>1 DEF UsableRAGMatches, Only, Arranged, GoodEnough, HasStrongTextEvidence
  <2>3. ClearlyBest(UsableRAGMatches(matches))' <=> ClearlyBest(UsableRAGMatches(matches))
    BY <2>2 DEF ClearlyBest
  <2> QED
    BY <2>1, <2>3 DEF RankInv, Once, Sorted, Unranked, Layered
<1> QED
  BY <1>1, <1>2, <1>3, <1>4 DEF RankNext

LEMMA RankInvHolds == RankSpec => []RankInv
  BY RankInvInit, RankInvStep, PTL DEF RankSpec

\* What is usable of a list keeps its order, and the head of the list when that is usable.
LEMMA UsableKeepsOrder ==
    ASSUME NEW ms \in Seq(Match), NEW ordered
    PROVE  /\ UsableRAGMatches(ms) \in Seq(Match)
           /\ Layered(ms, ordered) => Layered(UsableRAGMatches(ms), ordered)
           /\ RagHasUsableKnowledge(ms) =>
                UsableRAGMatches(ms) # <<>> /\ Head(UsableRAGMatches(ms)) = Head(ms)
<1> DEFINE P == { i \in DOMAIN ms : Found[ms[i].id].passage # "none" /\ GoodEnough(ms[i]) }
           u == UsableRAGMatches(ms)
           n == Cardinality(P)
<1>1. u = Only(ms, P)
  BY DEF UsableRAGMatches
<1>2. Len(ms) \in Nat /\ DOMAIN ms = 1..Len(ms) /\ \A i \in 1..Len(ms) : ms[i] \in Match
  OBVIOUS
<1>3. P \in SUBSET (1..Len(ms))
  BY <1>2
<1> HIDE DEF P, u, n
<1>4. PICK f : Keeps(f, u, ms, P, n)
  BY <1>1, <1>2, <1>3, OnlyKeepsOrder DEF n
<1>5. /\ n \in Nat /\ f \in [1..n -> P]
      /\ u = [k \in 1..n |-> ms[f[k]]]
      /\ \A k, l \in 1..n : k <= l <=> f[k] <= f[l]
      /\ \A j \in P : \E k \in 1..n : f[k] = j
  BY <1>4 DEF Keeps
<1>6. \A k \in 1..n : f[k] \in 1..Len(ms) /\ ms[f[k]] \in Match
  BY <1>2, <1>3, <1>5
<1>7. u \in Seq(Match) /\ Len(u) = n /\ \A k \in 1..n : u[k] = ms[f[k]]
  <2>1. u = [k \in 1..n |-> ms[f[k]]] /\ n \in Nat
    BY <1>5
  <2> QED
    BY <1>6, <2>1
<1>8. ASSUME Layered(ms, ordered) PROVE Layered(u, ordered)
  <2> SUFFICES ASSUME NEW i \in 1..n, NEW j \in 1..n, i <= j
               PROVE  /\ u[j].reranked => u[i].reranked
                      /\ ~u[i].reranked => u[i].score >= u[j].score
                      /\ u[j].reranked /\ ordered => u[i].score >= u[j].score
    BY <1>7 DEF Layered
  <2> DEFINE k == f[i]
             l == f[j]
  <2>1. k <= l /\ k \in 1..Len(ms) /\ l \in 1..Len(ms)
    BY <1>5, <1>6
  <2>2. u[i] = ms[k] /\ u[j] = ms[l]
    BY <1>7
  <2> HIDE DEF k, l
  <2>3. /\ ms[l].reranked => ms[k].reranked
        /\ ~ms[k].reranked => ms[k].score >= ms[l].score
        /\ ms[l].reranked /\ ordered => ms[k].score >= ms[l].score
    BY <1>8, <2>1 DEF Layered
  <2> QED
    BY <2>2, <2>3
<1>9. ASSUME RagHasUsableKnowledge(ms) PROVE u # <<>> /\ Head(u) = Head(ms)
  <2>1. ms # <<>> /\ Head(ms) = ms[1] /\ 1 \in 1..Len(ms)
    BY <1>9 DEF RagHasUsableKnowledge
  <2>2. 1 \in P
    BY <1>2, <1>9, <2>1 DEF RagHasUsableKnowledge, P
  <2>3. PICK k \in 1..n : f[k] = 1
    BY <1>5, <2>2
  <2>4. 1 \in 1..n /\ f[1] <= f[k]
    BY <1>5, <2>3
  <2>5. f[1] = 1
    BY <1>6, <2>3, <2>4
  <2>6. u[1] = ms[1] /\ Len(u) # 0
    BY <1>5, <1>7, <2>4, <2>5
  <2>7. u # <<>> /\ Head(u) = u[1]
    BY <1>7, <2>6
  <2> QED
    BY <2>1, <2>6, <2>7
<1> QED
  BY <1>7, <1>8, <1>9 DEF u

\* A hit of the cache serves what the miss that filled it served, and there is something to
\* serve, for all lists of matches, scores and rankings: the first usable match is the first
\* match (usableRAGMatches, service.go:1015-1027, against ragHasUsableKnowledge, 1002-1013, at
\* the lines 750, 789, 298 and 303).
THEOREM CachedRepliesAreTheSame == RankSpec => []HitEqualsMiss
<1>1. RankInv => HitEqualsMiss
  <2> SUFFICES ASSUME RankInv, RagHasUsableKnowledge(matches)
               PROVE  UsableRAGMatches(matches) # <<>> /\ Head(UsableRAGMatches(matches)) = Head(matches)
    BY DEF HitEqualsMiss
  <2>1. matches \in Seq(Match)
    BY DEF RankInv
  <2> QED
    BY <2>1, UsableKeepsOrder
<1> QED
  BY <1>1, RankInvHolds, PTL

\* A passage that Send answers with itself, though compared with the second usable one only,
\* is a reranked one if any is, else the one of the highest score; and unless its score is 930
\* or more it is 80 ahead of all others when the second is not reranked, and of the reranked
\* ones when the reranker's answer was in descending order on one scale
\* (shouldDirectReplyRAG, service.go:1029-1045).
THEOREM DirectRepliesAreClear == RankSpec => []DirectReplyIsClear
<1>1. RankInv => DirectReplyIsClear
  <2> DEFINE usable == UsableRAGMatches(matches)
             Ahead(m) == Head(usable).score >= 930 \/ Head(usable).score - m.score >= 80
  <2> SUFFICES ASSUME RankInv, reply = "direct", NEW i \in 2..Len(usable)
               PROVE  /\ usable[i].reranked => Head(usable).reranked
                      /\ ~Head(usable).reranked => usable[i].score <= Head(usable).score
                      /\ ~usable[2].reranked => Ahead(usable[i])
                      /\ usable[i].reranked /\ orderly =>
                           Ahead(usable[i]) /\ usable[i].score <= Head(usable).score
    BY DEF DirectReplyIsClear
  <2>1. matches \in Seq(Match) /\ Layered(matches, orderly) /\ ClearlyBest(usable)
    BY DEF RankInv
  <2>2. usable \in Seq(Match) /\ Layered(usable, orderly)
    BY <2>1, UsableKeepsOrder
  <2> HIDE DEF usable
  <2>3. /\ 1 \in 1..Len(usable) /\ 2 \in 1..Len(usable) /\ i \in 1..Len(usable) /\ 1 <= i /\ 2 <= i
        /\ Head(usable) = usable[1] /\ Len(usable) # 1
    <3>1. Len(usable) \in Nat /\ i \in Int /\ 2 <= i /\ i <= Len(usable)
      BY <2>2
    <3>2. usable # <<>>
      BY <2>1 DEF ClearlyBest
    <3> QED
      BY <2>2, <3>1, <3>2
  <2>4. usable[1] \in Match /\ usable[2] \in Match /\ usable[i] \in Match
    BY <2>2, <2>3
  <2>5. usable[1].score \in Int /\ usable[2].score \in Int /\ usable[i].score \in Int
    BY <2>4 DEF Match
  <2>6. /\ usable[i].reranked => usable[1].reranked /\ usable[2].reranked
        /\ ~usable[1].reranked => usable[1].score >= usable[i].score
        /\ ~usable[2].reranked => usable[2].score >= usable[i].score
        /\ usable[i].reranked /\ orderly =>
             usable[1].score >= usable[i].score /\ usable[2].score >= usable[i].score
    BY <2>2, <2>3 DEF Layered
  <2>7. Head(usable).score >= 930 \/ Head(usable).score - usable[2].score >= 80
    BY <2>1, <2>3 DEF ClearlyBest
  <2>8. usable[2].score >= usable[i].score => Ahead(usable[i])
    BY <2>3, <2>5, <2>7
  <2> HIDE DEF Ahead
  <2> QED
    BY <2>3, <2>6, <2>8
<1> QED
  BY <1>1, RankInvHolds, PTL

\* Merging keeps the best of the chunks that were found, each once and with the better of its
\* scores (mergeRAGMatches, service.go:1071-1118).  Reranking adds no chunk and does not shorten
\* the list; a chunk is in it twice only if the reranker named it twice, and missing only if
\* another is in it twice; the chunks that the reranker does not name stay as they are, behind
\* the others (rerankRAGMatches, 828-854).
THEOREM RankingSelectsTheBest == RankSpec => RankingSelects
<1> DEFINE F == Range(vectorMatches) \cup Range(keywordMatches)
           ids == { m.id : m \in F }
           A == /\ step = "found" =>
                     /\ Ids(matches') \subseteq ids
                     /\ Cardinality(Ids(matches')) = Len(matches')
                     /\ Len(matches') = AtMost(TopK, Cardinality(ids))
                     /\ \A i \in DOMAIN matches' :
                          /\ matches'[i].score = WeightOf(F, matches'[i].id)
                          /\ \A id \in ids \ Ids(matches') : WeightOf(F, id) <= matches'[i].score
                /\ step = "merged" =>
                     /\ Ids(matches') \subseteq Ids(matches)
                     /\ Len(matches') \in Len(matches)..TopK
                     /\ Ids(matches') # Ids(matches) => \E i, j \in DOMAIN matches' :
                          i # j /\ matches'[i].id = matches'[j].id
                     /\ \A i, j \in DOMAIN matches' :
                          i # j /\ matches'[i].id = matches'[j].id => matches'[i].reranked
                     /\ \A j \in DOMAIN matches' : ~matches'[j].reranked =>
                          /\ matches'[j] \in Range(matches)
                          /\ \A i \in j..Len(matches') : ~matches'[i].reranked
<1>1. ASSUME RankInv, RankNext PROVE A
  <2>1. RankInv'
    BY <1>1, RankInvStep
  <2>2. matches' \in Seq(Match) /\ Len(matches') \in Nat /\ DOMAIN matches' = 1..Len(matches')
    BY <2>1 DEF RankInv
  <2>3. CASE Merge
    <3>1. /\ Ids(matches') \subseteq ids
          /\ Len(matches') = AtMost(TopK, Cardinality(ids))
          /\ \A i \in 1..Len(matches') :
                    /\ matches'[i].score = WeightOf(F, matches'[i].id)
                    /\ \A id \in ids \ Ids(matches') : WeightOf(F, id) <= matches'[i].score
      BY <1>1, <2>3, MergeStep DEF SelectsBest
    <3>2. Cardinality(Ids(matches')) = Len(matches')
      BY <1>1, <2>2, <2>3, MergeStep, IdsCount DEF SelectsBest, Once
    <3>3. step = "found"
      BY <2>3 DEF Merge
    <3> HIDE DEF F, ids
    <3> QED
      BY <2>2, <3>1, <3>2, <3>3
  <2>4. CASE Rerank
    <3>1. step = "merged" /\ Reordered(matches', matches) /\ Layered(matches', orderly')
      BY <1>1, <2>4, RerankStep DEF Rerank
    <3>2. matches \in Seq(Match) /\ Once(matches) /\ Len(matches) \in Nat /\ DOMAIN matches = 1..Len(matches)
      BY <1>1, <3>1 DEF RankInv
    <3>3. Len(matches') \in Len(matches)..TopK
      BY <2>2, <3>1, <3>2, RankBoundsAssumption DEF Reordered
    <3>4. ASSUME \A i, j \in 1..Len(matches') : matches'[i].id = matches'[j].id => i = j
          PROVE  Ids(matches') = Ids(matches)
      <4>1. Cardinality(Ids(matches')) = Len(matches')
        BY <2>2, <3>4, IdsCount
      <4>2. IsFiniteSet(Ids(matches)) /\ Cardinality(Ids(matches)) = Len(matches)
        BY <3>2, IdsCount DEF Once
      <4>3. Ids(matches') \in SUBSET Ids(matches)
        BY <3>1 DEF Reordered
      <4>4. Cardinality(Ids(matches')) <= Cardinality(Ids(matches))
        BY <4>2, <4>3, FS_Subset
      <4>5. Cardinality(Ids(matches')) = Cardinality(Ids(matches))
        <5>1. Len(matches') <= Len(matches)
          BY <4>1, <4>2, <4>4
        <5>2. Len(matches) <= Len(matches')
          BY <3>1 DEF Reordered
        <5>3. Len(matches') \in Nat /\ Len(matches) \in Nat
          BY <2>2, <3>2
        <5>4. Len(matches') = Len(matches)
          BY <5>1, <5>2, <5>3
        <5> QED
          BY <4>1, <4>2, <5>4
      <4> QED
        BY <4>2, <4>3, <4>5, FS_Subset
    <3>5. ASSUME NEW j \in 1..Len(matches'), ~matches'[j].reranked
          PROVE  /\ matches'[j] \in Range(matches)
                 /\ \A i \in j..Len(matches') : ~matches'[i].reranked
      <4>1. matches'[j] \in Range(matches)
        BY <3>1, <3>2, <3>5 DEF Reordered, Range
      <4>2. ASSUME NEW i \in j..Len(matches') PROVE ~matches'[i].reranked
        <5>1. i \in 1..Len(matches') /\ j <= i
          BY <2>2
        <5> QED
          BY <3>1, <3>5, <5>1 DEF Layered
      <4> QED
        BY <4>1, <4>2
    <3>6. /\ Ids(matches') \subseteq Ids(matches)
          /\ \A i, j \in 1..Len(matches') : i # j /\ matches'[i].id = matches'[j].id => matches'[i].reranked
      BY <3>1 DEF Reordered
    <3> HIDE DEF F, ids
    <3> QED
      BY <2>2, <3>1, <3>3, <3>4, <3>5, <3>6
  <2>5. CASE Decide
    BY <2>5 DEF Decide
  <2> QED
    BY <1>1, <2>3, <2>4, <2>5 DEF RankNext
<1> HIDE DEF A
<1>2. RankInv /\ [RankNext]_rankVars => [A]_rankVars
  BY <1>1
<1>3. RankSpec => [][A]_rankVars
  BY <1>2, RankInvHolds, PTL DEF RankSpec
<1> QED
  BY <1>3, PTL DEF A, RankingSelects, WeightOf, BestOf, OfChunk
=============================================================================
