------------------------ MODULE SessionMemoryTheorems ------------------------
(***************************************************************************)
(* The session memory of Service.Send: whatever calls overlap, expire or   *)
(* restart, Redis holds whole turns of the stored conversation, and they   *)
(* are what the latest answer was made from.                               *)
(***************************************************************************)
EXTENDS ChatSendTheorems, SequenceTheorems

-----------------------------------------------------------------------------
(* Transcripts. *)

\* A turn is in the message table.
StoredTurn(t, c) == \E m \in messages : /\ m.conv = c /\ m.call = t.call
                                        /\ m.sender = t.role /\ m.text = t.text

\* Whole turns of conversation c, in order, stored and none twice.
Transcript(turns, c) ==
    /\ Len(turns) % 2 = 0
    /\ \A i \in DOMAIN turns :
          /\ turns[i].role = (IF i % 2 = 1 THEN "user" ELSE "assistant")
          /\ i % 2 = 1 => turns[i].call = turns[i + 1].call
          /\ StoredTurn(turns[i], c)
    /\ \A i, j \in DOMAIN turns :
          turns[i].call = turns[j].call /\ turns[i].role = turns[j].role => i = j

\* s is what t ends with.
EndsWith(t, s) ==
    /\ Len(s) <= Len(t)
    /\ \A i \in 1..Len(s) : s[i] = t[Len(t) - Len(s) + i]

\* Parity.
LEMMA EvenDifference ==
    ASSUME NEW a \in Nat, NEW b \in Nat, a % 2 = 0, b % 2 = 0
    PROVE  (a - b) % 2 = 0
  OBVIOUS

LEMMA EvenShift ==
    ASSUME NEW i \in Nat, NEW d \in Nat, d % 2 = 0
    PROVE  (i + d) % 2 = i % 2
  OBVIOUS

LEMMA TwoMore ==
    ASSUME NEW n \in Nat, n % 2 = 0
    PROVE  (n + 1) % 2 = 1 /\ (n + 2) % 2 = 0 /\ (n + 1) + 1 = n + 2
  OBVIOUS

LEMMA OddHasNext ==
    ASSUME NEW n \in Nat, n % 2 = 0, NEW i \in 1..n, i % 2 = 1
    PROVE  i + 1 \in 1..n
<1>1. i # n
  OBVIOUS
<1> QED
  BY <1>1

\* What trimming leaves is the end of what there was.
LEMMA TrimShape ==
    ASSUME NEW S, NEW s \in Seq(S)
    PROVE  /\ Trim(s) \in Seq(S)
           /\ Len(Trim(s)) <= MemoryMax
           /\ Len(Trim(s)) <= Len(s)
           /\ Len(s) <= MemoryMax => Trim(s) = s
           /\ Len(s) > MemoryMax => Len(Trim(s)) = MemoryMax
           /\ EndsWith(s, Trim(s))
<1>1. CASE Len(s) <= MemoryMax
  BY <1>1, ParametersAssumption DEF Trim, EndsWith
<1>2. CASE ~(Len(s) <= MemoryMax)
  <2>1. Trim(s) = SubSeq(s, Len(s) - MemoryMax + 1, Len(s))
    BY <1>2 DEF Trim
  <2>2. Len(s) - MemoryMax + 1 \in 1..Len(s)
    BY <1>2, ParametersAssumption
  <2>3. Len(Trim(s)) = MemoryMax
    BY <2>1, <2>2, ParametersAssumption
  <2>4. \A i \in 1..MemoryMax : Trim(s)[i] = s[Len(s) - MemoryMax + i]
    BY <2>1, <2>2, ParametersAssumption
  <2> QED
    BY <1>2, <2>3, <2>4, TrimType, ParametersAssumption DEF EndsWith
<1> QED
  BY <1>1, <1>2

\* Trimming cuts between turns.
LEMMA TrimmedTranscript ==
    ASSUME NEW s \in Seq(Turn), NEW c, Transcript(s, c)
    PROVE  Transcript(Trim(s), c)
<1> DEFINE t == Trim(s)
           d == Len(s) - Len(t)
<1>1. /\ t \in Seq(Turn) /\ Len(t) <= Len(s) /\ EndsWith(s, t)
      /\ t = s \/ Len(t) = MemoryMax
  <2>1. Len(s) \in Nat
    OBVIOUS
  <2> QED
    BY <2>1, TrimShape, ParametersAssumption
<1> HIDE DEF t
<1>2. d \in Nat /\ d % 2 = 0 /\ Len(t) % 2 = 0
  <2>1. Len(t) \in Nat /\ Len(s) \in Nat /\ Len(s) % 2 = 0
    BY <1>1 DEF Transcript
  <2>2. Len(t) % 2 = 0
    BY <2>1, <1>1, WholeTurnsAssumption
  <2> QED
    BY <2>1, <2>2, <1>1, EvenDifference
<1>3. \A i \in DOMAIN t : i + d \in DOMAIN s /\ t[i] = s[i + d] /\ (i + d) % 2 = i % 2
  <2> SUFFICES ASSUME NEW i \in DOMAIN t
               PROVE  i + d \in DOMAIN s /\ t[i] = s[i + d] /\ (i + d) % 2 = i % 2
    OBVIOUS
  <2>1. i \in Nat /\ i \in 1..Len(t)
    BY <1>1
  <2>2. i + d = Len(s) - Len(t) + i /\ i + d \in 1..Len(s)
    BY <2>1, <1>1
  <2>3. t[i] = s[i + d]
    BY <2>1, <2>2, <1>1 DEF EndsWith
  <2>4. (i + d) % 2 = i % 2
    BY <2>1, <1>2, EvenShift
  <2> QED
    BY <2>2, <2>3, <2>4
<1>4. \A i \in DOMAIN t : i % 2 = 1 => i + 1 \in DOMAIN t
  BY <1>1, <1>2
<1> HIDE DEF d
<1>5. ASSUME NEW i \in DOMAIN t
      PROVE  /\ t[i].role = (IF i % 2 = 1 THEN "user" ELSE "assistant")
             /\ i % 2 = 1 => t[i].call = t[i + 1].call
             /\ StoredTurn(t[i], c)
  <2>1. /\ t[i].role = (IF i % 2 = 1 THEN "user" ELSE "assistant")
        /\ StoredTurn(t[i], c)
    BY <1>3 DEF Transcript
  <2>2. ASSUME i % 2 = 1
        PROVE  t[i].call = t[i + 1].call
    <3>1. i + 1 \in DOMAIN t
      BY <2>2, <1>4
    <3>2. t[i + 1] = s[i + 1 + d] /\ t[i] = s[i + d] /\ (i + d) % 2 = 1
      BY <2>2, <3>1, <1>3
    <3>3. i + 1 + d = (i + d) + 1
      <4>1. i \in Nat
        BY <1>1
      <4> QED
        BY <4>1, <1>2
    <3> QED
      BY <3>2, <3>3, <1>3 DEF Transcript
  <2> QED
    BY <2>1, <2>2
<1>6. ASSUME NEW i \in DOMAIN t, NEW j \in DOMAIN t,
             t[i].call = t[j].call, t[i].role = t[j].role
      PROVE  i = j
  <2>1. i \in Nat /\ j \in Nat
    BY <1>1
  <2>2. /\ i + d \in DOMAIN s /\ j + d \in DOMAIN s
        /\ s[i + d].call = s[j + d].call /\ s[i + d].role = s[j + d].role
    BY <1>3, <1>6
  <2>3. i + d = j + d
    BY <2>2 DEF Transcript
  <2> QED
    BY <2>1, <2>3, <1>2
<1> QED
  BY <1>2, <1>5, <1>6 DEF Transcript, t

\* A call's turn, appended to a transcript it is not in, makes a transcript.
LEMMA ExtendedTranscript ==
    ASSUME NEW s \in Seq(Turn), NEW k \in Calls, TypeOK,
           Transcript(s, req[k].conv), \A i \in DOMAIN s : s[i].call # k,
           UserRow(k) \in messages, ReplyRow(k) \in messages
    PROVE  /\ s \o TurnOf(k) \in Seq(Turn)
           /\ Transcript(s \o TurnOf(k), req[k].conv)
           /\ Len(s \o TurnOf(k)) = Len(s) + 2
           /\ \A i \in DOMAIN s : (s \o TurnOf(k))[i] = s[i]
           /\ \A i \in 1..2 : (s \o TurnOf(k))[Len(s) + i].call = k
<1> DEFINE t == s \o TurnOf(k)
           n == Len(s)
           c == req[k].conv
<1>1. /\ TurnOf(k) \in Seq(Turn) /\ Len(TurnOf(k)) = 2
      /\ TurnOf(k)[1] = [role |-> "user", call |-> k, text |-> "user_text"]
      /\ TurnOf(k)[2] = [role |-> "assistant", call |-> k, text |-> resp[k].text]
  <2>1. resp[k].text \in Texts
    BY DEF TypeOK, Response
  <2> QED
    BY <2>1 DEF TurnOf, Turn
<1> HIDE DEF c
<1>2. /\ t \in Seq(Turn) /\ Len(t) = n + 2 /\ n \in Nat /\ n % 2 = 0
      /\ DOMAIN s = 1..n /\ DOMAIN t = 1..(n + 2)
      /\ \A i \in 1..n : t[i] = s[i]
      /\ t[n + 1] = TurnOf(k)[1]
      /\ t[n + 2] = TurnOf(k)[2]
  <2>1. n \in Nat /\ n % 2 = 0 /\ DOMAIN s = 1..n
    BY DEF Transcript
  <2>2. ASSUME NEW u \in Seq(Turn), Len(u) = 2
        PROVE  /\ s \o u \in Seq(Turn) /\ Len(s \o u) = n + 2 /\ DOMAIN (s \o u) = 1..(n + 2)
               /\ \A i \in 1..n : (s \o u)[i] = s[i]
               /\ (s \o u)[n + 1] = u[1]
               /\ (s \o u)[n + 2] = u[2]
    <3>1. s \o u \in Seq(Turn) /\ Len(s \o u) = Len(s) + Len(u)
      OBVIOUS
    <3>2. DOMAIN (s \o u) = 1..(n + 2)
      BY <3>1, <2>1, <2>2
    <3>3. \A i \in 1..(n + 2) : (s \o u)[i] = IF i <= n THEN s[i] ELSE u[i - n]
      <4>1. \A i \in 1 .. Len(s) + Len(u) :
               (s \o u)[i] = IF i <= Len(s) THEN s[i] ELSE u[i - Len(s)]
        BY ConcatProperties
      <4> QED
        BY <4>1, <2>2
    <3>4. (n + 1) - n = 1 /\ (n + 2) - n = 2 /\ ~(n + 1 <= n) /\ ~(n + 2 <= n)
          /\ n + 1 \in 1..(n + 2) /\ n + 2 \in 1..(n + 2) /\ n \in Nat
      BY <2>1
    <3> QED
      BY <3>1, <3>2, <3>3, <3>4, <2>2
  <2> QED
    BY <2>1, <2>2, <1>1
<1>3. StoredTurn(TurnOf(k)[1], c) /\ StoredTurn(TurnOf(k)[2], c)
  BY <1>1 DEF StoredTurn, UserRow, ReplyRow, c
<1>4. (n + 1) % 2 = 1 /\ (n + 2) % 2 = 0 /\ (n + 1) + 1 = n + 2
  <2>1. n \in Nat /\ n % 2 = 0
    BY <1>2, Zenon
  <2> QED
    BY <2>1, TwoMore
<1> HIDE DEF t, n
<1>5. ASSUME NEW i \in DOMAIN t
      PROVE  /\ t[i].role = (IF i % 2 = 1 THEN "user" ELSE "assistant")
             /\ i % 2 = 1 => t[i].call = t[i + 1].call
             /\ StoredTurn(t[i], c)
  <2>1. CASE i \in 1..n
    <3>1. i % 2 = 1 => i + 1 \in 1..n
      <4>1. n \in Nat /\ n % 2 = 0
        BY <1>2
      <4> QED
        BY <2>1, <4>1, OddHasNext
    <3> QED
      BY <2>1, <3>1, <1>2 DEF Transcript, c
  <2>2. CASE i = n + 1
    BY <2>2, <1>1, <1>2, <1>3, <1>4
  <2>3. CASE i = n + 2
    BY <2>3, <1>1, <1>2, <1>3, <1>4
  <2> QED
    BY <1>2, <2>1, <2>2, <2>3, SMTT(30)
<1>6. ASSUME NEW i \in DOMAIN t, NEW j \in DOMAIN t,
             t[i].call = t[j].call, t[i].role = t[j].role
      PROVE  i = j
  <2>1. CASE i \in 1..n /\ j \in 1..n
    BY <2>1, <1>2, <1>6 DEF Transcript
  <2>2. \A x \in DOMAIN t : t[x].call = k <=> x \in {n + 1, n + 2}
    <3>1. \A x \in 1..n : t[x].call # k /\ x \notin {n + 1, n + 2}
      <4>1. \A x \in 1..n : t[x] = s[x] /\ x \in DOMAIN s
        BY <1>2
      <4>2. \A x \in 1..n : x # n + 1 /\ x # n + 2
        BY <1>2
      <4> QED
        BY <4>1, <4>2
    <3>2. t[n + 1].call = k /\ t[n + 2].call = k
      BY <1>1, <1>2
    <3>3. \A x \in DOMAIN t : x \in 1..n \/ x \in {n + 1, n + 2}
      BY <1>2
    <3> QED
      BY <3>1, <3>2, <3>3
  <2>3. t[n + 1].role # t[n + 2].role
    BY <1>1, <1>2
  <2>4. CASE i \in {n + 1, n + 2}
    BY <2>4, <2>2, <2>3, <1>6
  <2>5. CASE j \in {n + 1, n + 2}
    BY <2>5, <2>2, <2>3, <1>6
  <2> QED
    BY <1>2, <2>1, <2>4, <2>5
<1>7. Transcript(t, c)
  BY <1>2, <1>4, <1>5, <1>6 DEF Transcript
<1> QED
  BY <1>1, <1>2, <1>7 DEF t, n, c

-----------------------------------------------------------------------------
(* The memory is a transcript. *)

\* The call is past the writing of its turn.
Remembering(k) == pc[k] \notin Unanswered \cup Recording

\* A memory of conversation c: a short enough transcript, by calls that saved their turn.
Memorized(turns, c) ==
    /\ Transcript(turns, c)
    /\ Len(turns) <= MemoryMax
    /\ \A i \in DOMAIN turns : Remembering(turns[i].call)

MemoryInv ==
    /\ \A c \in Conversations : Memorized(memory[c], c)
    /\ \A k \in Calls : /\ Memorized(loaded[k], req[k].conv)
                        /\ \A i \in DOMAIN loaded[k] : loaded[k][i].call # k

\* What a transcript is made of only grows.
LEMMA TranscriptsKeep ==
    ASSUME TypeOK, NEW turns \in Seq(Turn), NEW c, Memorized(turns, c),
           messages \subseteq messages',
           \A k \in Calls : Remembering(k) => Remembering(k)'
    PROVE  Transcript(turns, c)' /\ Memorized(turns, c)'
<1>1. \A i \in DOMAIN turns : turns[i].call \in Calls
  <2>1. \A i \in DOMAIN turns : turns[i] \in Turn
    OBVIOUS
  <2>2. \A t \in Turn : t.call \in Calls
    BY DEF Turn
  <2> QED
    BY <2>1, <2>2
<1>2. \A i \in DOMAIN turns : StoredTurn(turns[i], c)'
  BY DEF Memorized, Transcript, StoredTurn
<1>3. \A i \in DOMAIN turns : Remembering(turns[i].call)'
  BY <1>1 DEF Memorized
<1> QED
  BY <1>2, <1>3 DEF Memorized, Transcript

\* An empty memory is one.
LEMMA EmptyMemory ==
    ASSUME NEW turns, turns = <<>>, NEW c
    PROVE  turns \in Seq(Turn) /\ Memorized(turns, c)
<1>1. 0 % 2 = 0 /\ 0 <= MemoryMax
  BY ParametersAssumption
<1>2. <<>> \in Seq(Turn) /\ Len(<<>>) = 0 /\ DOMAIN <<>> = {}
  OBVIOUS
<1> QED
  BY <1>1, <1>2 DEF Memorized, Transcript

\* Once past the writing of its turn a call stays there.
LEMMA RememberingStays ==
    ASSUME TypeOK, StageInv, [Next]_vars
    PROVE  \A k \in Calls : Remembering(k) => Remembering(k)'
<1>1. CASE \E k \in Calls : CallStep(k)
  <2>1. PICK k \in Calls : CallStep(k)
    BY <1>1
  <2>2. Remembering(k) => Remembering(k)'
    BY <2>1, CallMoves DEF Remembering, Unanswered, Recording, Routable, PastRules
  <2> QED
    BY <2>1, <2>2, CallStepFrame DEF Remembering
<1>2. CASE Environment \/ UNCHANGED vars
  BY <1>2, EnvironmentFrame DEF Remembering, Unanswered, Recording
<1> QED
  BY <1>1, <1>2, NextCases

\* Which steps touch the memory and what calls have read of it.
LEMMA MemoryFrame ==
    ASSUME TypeOK, [Next]_vars
    PROVE  /\ req' = req /\ messages \subseteq messages'
           /\ \/ UNCHANGED <<memory, loaded>>
              \/ \E k \in Calls : LoadMemory(k)
              \/ \E k \in Calls : SaveMemory(k)
              \/ \E c \in Conversations : ExpireMemory(c)
<1>1. req' = req /\ messages \subseteq messages'
  BY CallStepFrame, EnvironmentFrame, NextCases
<1>2. CASE \E k \in Calls : CallStep(k)
  BY <1>1, <1>2 DEF CallStep, SaveConversation, SaveUserMessage, Route, ReadFeatureFlag,
     SearchKnowledge, AskModel, SaveReply, SaveEvent, EmitTrace
<1>3. CASE Environment \/ UNCHANGED vars
  BY <1>1, <1>3 DEF Environment, LogStep, ReloadRules, SetFeatureFlag, Restart, vars, callVars
<1> QED
  BY <1>2, <1>3, NextCases

Latest(turns) == turns[Len(turns)].call

\* The turns before the latest one are the end of a history.
Continues(turns, history) ==
    /\ Len(turns) >= 2
    /\ Len(turns) - 2 <= Len(history)
    /\ \A i \in 1..(Len(turns) - 2) : turns[i] = history[Len(history) - (Len(turns) - 2) + i]

\* What a call saves is a memory of its conversation that ends with its own turn.
LEMMA SavedMemory ==
    ASSUME TypeOK, StageInv, RecordInv, MemoryInv, NEW k \in Calls, SaveMemory(k),
           NEW turns, turns = Trim(loaded[k] \o TurnOf(k))
    PROVE  /\ turns \in Seq(Turn)
           /\ Transcript(turns, req[k].conv)
           /\ Len(turns) <= MemoryMax
           /\ \A i \in DOMAIN turns : Remembering(turns[i].call) \/ turns[i].call = k
           /\ Latest(turns) = k /\ Continues(turns, loaded[k])
<1> DEFINE s == loaded[k]
           t == s \o TurnOf(k)
<1>1. /\ s \in Seq(Turn) /\ Transcript(s, req[k].conv)
      /\ \A i \in DOMAIN s : s[i].call # k /\ Remembering(s[i].call)
  BY DEF TypeOK, MemoryInv, Memorized
<1>2. UserRow(k) \in messages /\ ReplyRow(k) \in messages
  BY DEF SaveMemory, Stage, StageInv, RecordInv, Recording
<1>3. /\ t \in Seq(Turn)
      /\ Transcript(t, req[k].conv)
      /\ Len(t) = Len(s) + 2
      /\ \A i \in DOMAIN s : t[i] = s[i]
      /\ \A i \in 1..2 : t[Len(s) + i].call = k
  BY <1>1, <1>2, ExtendedTranscript, SMTT(30)
<1> HIDE DEF s, t
<1>4. /\ turns \in Seq(Turn)
      /\ Transcript(turns, req[k].conv)
      /\ Len(turns) <= MemoryMax
      /\ Len(turns) <= Len(t)
      /\ \A i \in 1..Len(turns) : turns[i] = t[Len(t) - Len(turns) + i]
      /\ turns = t \/ Len(turns) = MemoryMax
  <2>1. turns = Trim(t)
    BY DEF s, t
  <2>2. Len(t) \in Nat
    BY <1>3
  <2>3. /\ Trim(t) \in Seq(Turn)
        /\ Len(Trim(t)) <= MemoryMax
        /\ Len(Trim(t)) <= Len(t)
        /\ Trim(t) = t \/ Len(Trim(t)) = MemoryMax
        /\ EndsWith(t, Trim(t))
    BY <2>2, <1>3, TrimShape, ParametersAssumption
  <2>4. Transcript(Trim(t), req[k].conv)
    BY <1>3, TrimmedTranscript
  <2> QED
    BY <2>1, <2>3, <2>4 DEF EndsWith
<1>5. Len(s) \in Nat /\ Len(turns) \in Nat /\ DOMAIN s = 1..Len(s) /\ DOMAIN turns = 1..Len(turns)
  BY <1>1, <1>4
<1>6. MemoryMax >= 2
  <2>1. MemoryMax \in Nat /\ MemoryMax # 0 /\ 1 % 2 = 1
    BY ParametersAssumption
  <2> QED
    BY <2>1, WholeTurnsAssumption
<1>7. Len(turns) >= 2
  BY <1>3, <1>4, <1>5, <1>6
<1>8. Len(turns) - 2 <= Len(s)
  BY <1>3, <1>4, <1>5
<1>9. \A i \in 1..(Len(turns) - 2) : turns[i] = s[Len(s) - (Len(turns) - 2) + i]
  <2> SUFFICES ASSUME NEW i \in 1..(Len(turns) - 2)
               PROVE  turns[i] = s[Len(s) - (Len(turns) - 2) + i]
    OBVIOUS
  <2>1. /\ Len(t) - Len(turns) + i = Len(s) - (Len(turns) - 2) + i
        /\ Len(s) - (Len(turns) - 2) + i \in 1..Len(s)
        /\ i \in 1..Len(turns)
    BY <1>3, <1>5, <1>7, <1>8
  <2> QED
    BY <2>1, <1>3, <1>4, <1>5
<1>10. \A i \in DOMAIN turns : Remembering(turns[i].call) \/ turns[i].call = k
  <2> SUFFICES ASSUME NEW i \in 1..Len(turns)
               PROVE  Remembering(turns[i].call) \/ turns[i].call = k
    BY <1>5
  <2>1. CASE i <= Len(turns) - 2
    <3>1. Len(s) - (Len(turns) - 2) + i \in 1..Len(s)
      BY <2>1, <1>5, <1>7, <1>8
    <3>2. i \in 1..(Len(turns) - 2)
      BY <2>1, <1>5, <1>7
    <3> QED
      BY <3>1, <3>2, <1>1, <1>5, <1>9
  <2>2. CASE i > Len(turns) - 2
    <3>1. \E j \in 1..2 : Len(t) - Len(turns) + i = Len(s) + j
      <4>1. i = Len(turns) - 1 \/ i = Len(turns)
        BY <2>2, <1>5
      <4> QED
        BY <4>1, <1>3, <1>5, SMTT(30)
    <3> QED
      BY <3>1, <1>3, <1>4
  <2> QED
    BY <2>1, <2>2, <1>5
<1>11. turns[Len(turns)].call = k
  <2>1. Len(turns) \in 1..Len(turns) /\ Len(t) - Len(turns) + Len(turns) = Len(s) + 2
    BY <1>3, <1>5, <1>7
  <2> QED
    BY <2>1, <1>3, <1>4
<1> QED
  BY <1>4, <1>7, <1>8, <1>9, <1>10, <1>11 DEF s, Latest, Continues

\* Every step keeps memories and what calls have read transcripts
\* (session_memory.go:104-122, service.go:1386-1418).
LEMMA MemoryStep ==
    ASSUME TypeOK, StageInv, RecordInv, MemoryInv, [Next]_vars
    PROVE  MemoryInv'
<1>1. /\ req' = req /\ messages \subseteq messages'
      /\ \A k \in Calls : Remembering(k) => Remembering(k)'
  BY MemoryFrame, RememberingStays
<1>2. \A turns \in Seq(Turn) : \A c : Memorized(turns, c) => Memorized(turns, c)'
  BY <1>1, TranscriptsKeep
<1>3. /\ \A c \in Conversations : memory[c] \in Seq(Turn) /\ Memorized(memory[c], c)
      /\ \A k \in Calls : /\ loaded[k] \in Seq(Turn) /\ Memorized(loaded[k], req[k].conv)
                          /\ \A i \in DOMAIN loaded[k] : loaded[k][i].call # k
      /\ \A k \in Calls : req[k].conv \in Conversations
  BY RequestFields DEF TypeOK, MemoryInv
<1>4. CASE UNCHANGED <<memory, loaded>>
  BY <1>1, <1>2, <1>3, <1>4 DEF MemoryInv
<1>5. CASE \E k \in Calls : LoadMemory(k)
  <2>1. PICK k \in Calls : LoadMemory(k)
    BY <1>5
  <2>2. PICK turns \in {memory[req[k].conv], <<>>} : loaded' = [loaded EXCEPT ![k] = turns]
    BY <2>1 DEF LoadMemory
  <2>3. memory' = memory /\ pc[k] = "session_memory"
    BY <2>1 DEF LoadMemory, Stage
  <2>4. turns \in Seq(Turn) /\ Memorized(turns, req[k].conv)
    BY <2>2, <1>3, EmptyMemory
  <2>5. \A i \in DOMAIN turns : turns[i].call # k
    <3>1. ~Remembering(k)
      BY <2>3 DEF Remembering, Unanswered
    <3> QED
      BY <2>4, <3>1 DEF Memorized
  <2>6. loaded'[k] = turns /\ \A j \in Calls \ {k} : loaded'[j] = loaded[j]
    BY <2>2 DEF TypeOK
  <2>7. ASSUME NEW j \in Calls
        PROVE  Memorized(loaded[j], req[j].conv)' /\ \A i \in DOMAIN loaded'[j] : loaded'[j][i].call # j
    <3>1. CASE j = k
      BY <3>1, <2>4, <2>5, <2>6, <1>1, <1>2
    <3>2. CASE j # k
      BY <3>2, <2>6, <1>1, <1>2, <1>3
    <3> QED
      BY <3>1, <3>2
  <2>8. \A c \in Conversations : Memorized(memory[c], c)'
    BY <2>3, <1>2, <1>3
  <2> QED
    BY <2>7, <2>8 DEF MemoryInv
<1>6. CASE \E k \in Calls : SaveMemory(k)
  <2>1. PICK k \in Calls : SaveMemory(k)
    BY <1>6
  <2> DEFINE new == Trim(loaded[k] \o TurnOf(k))
  <2>2. /\ loaded' = loaded
        /\ memory' = memory \/ memory' = [memory EXCEPT ![req[k].conv] = new]
    BY <2>1 DEF SaveMemory
  <2>3. Remembering(k)'
    BY <2>1 DEF SaveMemory, GoTo, TypeOK, Remembering, Unanswered, Recording
  <2>4. /\ new \in Seq(Turn)
        /\ Transcript(new, req[k].conv)
        /\ Len(new) <= MemoryMax
        /\ \A i \in DOMAIN new : Remembering(new[i].call) \/ new[i].call = k
    BY <2>1, SavedMemory
  <2> HIDE DEF new
  <2>5. ASSUME NEW turns \in Seq(Turn), turns = new
        PROVE  Memorized(turns, req[k].conv)'
    <3>1. \A i \in DOMAIN turns : StoredTurn(turns[i], req[k].conv)'
      BY <2>4, <2>5, <1>1 DEF Transcript, StoredTurn
    <3>2. Transcript(turns, req[k].conv)'
      BY <2>4, <2>5, <3>1, <1>1 DEF Transcript
    <3>3. \A i \in DOMAIN turns : Remembering(turns[i].call)'
      <4>1. \A i \in DOMAIN turns : turns[i] \in Turn
        OBVIOUS
      <4>2. \A i \in DOMAIN turns : turns[i].call \in Calls
        BY <4>1 DEF Turn
      <4> QED
        BY <4>2, <2>3, <2>4, <2>5, <1>1
    <3> QED
      BY <3>2, <3>3, <2>4, <2>5 DEF Memorized
  <2>6. \A c \in Conversations : Memorized(memory[c], c)'
    <3>1. CASE memory' = memory
      BY <3>1, <1>2, <1>3
    <3>2. CASE memory' = [memory EXCEPT ![req[k].conv] = new]
      <4>1. /\ memory'[req[k].conv] = new
            /\ \A c \in Conversations \ {req[k].conv} : memory'[c] = memory[c]
        BY <3>2, <1>3 DEF TypeOK
      <4> QED
        BY <4>1, <2>4, <2>5, <1>1, <1>2, <1>3
    <3> QED
      BY <2>2, <3>1, <3>2
  <2>7. \A j \in Calls : /\ Memorized(loaded[j], req[j].conv)'
                         /\ \A i \in DOMAIN loaded'[j] : loaded'[j][i].call # j
    BY <2>2, <1>1, <1>2, <1>3
  <2> QED
    BY <2>6, <2>7 DEF MemoryInv
<1>7. CASE \E c \in Conversations : ExpireMemory(c)
  <2>1. PICK c \in Conversations : ExpireMemory(c)
    BY <1>7
  <2>2. /\ loaded' = loaded /\ memory'[c] = <<>>
        /\ \A d \in Conversations \ {c} : memory'[d] = memory[d]
    BY <2>1 DEF ExpireMemory, TypeOK, callVars
  <2>3. \A d \in Conversations : Memorized(memory[d], d)'
    <3>1. ASSUME NEW turns, turns = <<>>, NEW d
          PROVE  Memorized(turns, d)'
      BY <3>1, <1>2, EmptyMemory
    <3> QED
      BY <2>2, <3>1, <1>2, <1>3
  <2>4. \A j \in Calls : /\ Memorized(loaded[j], req[j].conv)'
                         /\ \A i \in DOMAIN loaded'[j] : loaded'[j][i].call # j
    BY <2>2, <1>1, <1>2, <1>3
  <2> QED
    BY <2>3, <2>4 DEF MemoryInv
<1> QED
  BY <1>4, <1>5, <1>6, <1>7, MemoryFrame

\* The memory of a conversation is a transcript of it whatever overlaps, expires or stops
\* (session_memory.go:104-122, service.go:1386-1418).
THEOREM MemoryIsATranscript == Spec => []MemoryIsTranscript
<1>1. Init => MemoryInv
  <2> SUFFICES ASSUME Init PROVE MemoryInv
    OBVIOUS
  <2>1. /\ \A c \in Conversations : memory[c] = <<>>
        /\ \A k \in Calls : loaded[k] = <<>>
    BY DEF Init
  <2> QED
    BY <2>1, EmptyMemory DEF MemoryInv
<1>2. SafetyInv /\ MemoryInv /\ [Next]_vars => MemoryInv'
  BY MemoryStep DEF SafetyInv
<1>3. MemoryInv => MemoryIsTranscript
  BY DEF MemoryInv, Memorized, Transcript, StoredTurn, MemoryIsTranscript
<1> QED
  BY <1>1, <1>2, <1>3, SafetyInvariant, PTL DEF Spec

\* A part of a sequence.
LEMMA SubSeqFacts ==
    ASSUME NEW S, NEW s \in Seq(S), NEW m \in Int, NEW n \in Int, 1 <= m, m <= n + 1, n <= Len(s)
    PROVE  /\ SubSeq(s, m, n) \in Seq(S)
           /\ Len(SubSeq(s, m, n)) = n - m + 1
           /\ \A i \in 1..(n - m + 1) : SubSeq(s, m, n)[i] = s[m + i - 1]
<1>1. \A i \in m..n : s[i] \in S
  OBVIOUS
<1>2. (IF m <= n THEN n - m + 1 ELSE 0) = n - m + 1
  OBVIOUS
<1> QED
  BY <1>1, <1>2, SubSeqProperties

-----------------------------------------------------------------------------
(* The memory tells what its answers were made from. *)

BeforeRecall == {"save_conversation", "save_user_message", "route", "feature_flag",
                 "session_memory"}

\* A call's prompt is what it read, whole; the latest turn of a memory continues what its
\* call had read.
StoryInv ==
    /\ \A a \in asked : a.history = loaded[a.call] /\ pc[a.call] \notin BeforeRecall
    /\ \A c \in Conversations :
          memory[c] # <<>> => /\ Remembering(Latest(memory[c]))
                              /\ Latest(memory[c]) \in Calls
                              /\ Continues(memory[c], loaded[Latest(memory[c])])

\* A call does not return to the stages before its reading of the memory.
LEMMA RecallIsPast ==
    ASSUME TypeOK, StageInv, [Next]_vars
    PROVE  \A k \in Calls : pc[k] \notin BeforeRecall => pc'[k] \notin BeforeRecall
<1>1. CASE \E k \in Calls : CallStep(k)
  <2>1. PICK k \in Calls : CallStep(k)
    BY <1>1
  <2>2. ASSUME SearchKnowledge(k) \/ AskModel(k)
        PROVE  pc'[k] \notin BeforeRecall
    BY <2>2 DEF BeforeRecall, SearchKnowledge, AskModel, Fail, Routed, Respond, GoTo, TypeOK
  <2>3. pc[k] \in {"rag_search", "llm_reply"} => SearchKnowledge(k) \/ AskModel(k)
    BY <2>1 DEF CallStep, SaveConversation, SaveUserMessage, Route, ReadFeatureFlag, LoadMemory,
       SaveReply, SaveEvent, SaveMemory, EmitTrace, Stage
  <2>4. pc[k] \notin BeforeRecall => pc'[k] \notin BeforeRecall
    BY <2>1, <2>2, <2>3, CallMoves DEF BeforeRecall, Routable, PastRules
  <2> QED
    BY <2>1, <2>4, CallStepFrame
<1>2. CASE Environment \/ UNCHANGED vars
  BY <1>2, EnvironmentFrame DEF BeforeRecall
<1> QED
  BY <1>1, <1>2, NextCases

\* Every step keeps the story (session_memory.go:104-122, service.go:306-347, 1386-1418).
LEMMA StoryStep ==
    ASSUME TypeOK, StageInv, RecordInv, MemoryInv, StoryInv, [Next]_vars
    PROVE  StoryInv'
<1>1. /\ \A k \in Calls : Remembering(k) => Remembering(k)'
      /\ \A k \in Calls : pc[k] \notin BeforeRecall => pc'[k] \notin BeforeRecall
      /\ \A a \in asked : a.call \in Calls
  BY RememberingStays, RecallIsPast DEF TypeOK, ModelRequest
<1>2. \A k \in Calls : loaded'[k] # loaded[k] => pc[k] = "session_memory"
  <2>1. ASSUME NEW k \in Calls, LoadMemory(k)
        PROVE  pc[k] = "session_memory" /\ \A j \in Calls \ {k} : loaded'[j] = loaded[j]
    BY <2>1 DEF LoadMemory, Stage, TypeOK
  <2> QED
    BY <2>1, MemoryFrame DEF SaveMemory, ExpireMemory, callVars
<1>3. \A k \in Calls : pc[k] \notin BeforeRecall \/ Remembering(k) => loaded'[k] = loaded[k]
  BY <1>2 DEF BeforeRecall, Remembering, Unanswered
<1>4. \A a \in asked' : a.history = loaded'[a.call] /\ pc'[a.call] \notin BeforeRecall
  <2>1. \A a \in asked : a.history = loaded'[a.call] /\ pc'[a.call] \notin BeforeRecall
    BY <1>1, <1>3 DEF StoryInv
  <2>2. CASE asked' = asked
    BY <2>1, <2>2
  <2>3. ASSUME NEW k \in Calls, AskModel(k)
        PROVE  \A a \in asked' : a \in asked \/ (a.history = loaded'[a.call] /\ pc'[a.call] \notin BeforeRecall)
    <3>1. Trim(loaded[k]) = loaded[k]
      BY TrimShape DEF TypeOK, MemoryInv, Memorized
    <3>2. /\ loaded' = loaded /\ pc[k] = "llm_reply"
          /\ \A a \in asked' : a \in asked \/ (a.call = k /\ a.history = Trim(loaded[k]))
      BY <2>3 DEF AskModel, Stage
    <3>3. pc'[k] \notin BeforeRecall
      BY <3>2, <1>1 DEF BeforeRecall
    <3> QED
      BY <3>1, <3>2, <3>3
  <2>4. asked' = asked \/ \E k \in Calls : AskModel(k)
    <3>1. CASE \E k \in Calls : CallStep(k)
      BY <3>1 DEF CallStep, SaveConversation, SaveUserMessage, Route, ReadFeatureFlag, LoadMemory,
         SearchKnowledge, SaveReply, SaveEvent, SaveMemory, EmitTrace
    <3> QED
      BY <3>1, NextCases, EnvironmentFrame
  <2> QED
    BY <2>1, <2>2, <2>3, <2>4
<1>5. ASSUME NEW c \in Conversations, memory'[c] # <<>>
      PROVE  /\ Remembering(Latest(memory[c]))'
             /\ Latest(memory'[c]) \in Calls
             /\ Continues(memory'[c], loaded'[Latest(memory'[c])])
  <2>1. CASE memory'[c] = memory[c]
    BY <2>1, <1>1, <1>3, <1>5 DEF StoryInv, Remembering
  <2>2. ASSUME NEW k \in Calls, SaveMemory(k), memory'[c] # memory[c]
        PROVE  memory'[c] = Trim(loaded[k] \o TurnOf(k)) /\ loaded' = loaded
    BY <2>2 DEF SaveMemory, TypeOK
  <2>3. ASSUME NEW k \in Calls, SaveMemory(k), memory'[c] # memory[c]
        PROVE  /\ Latest(memory'[c]) = k
               /\ Continues(memory'[c], loaded'[k])
               /\ pc'[k] = "emit"
    <3>1. pc'[k] = "emit"
      BY <2>3 DEF SaveMemory, GoTo, TypeOK
    <3>2. ASSUME NEW turns, turns = Trim(loaded[k] \o TurnOf(k))
          PROVE  Latest(turns) = k /\ Continues(turns, loaded[k])
      BY <3>2, <2>3, SavedMemory
    <3>3. memory'[c] = Trim(loaded[k] \o TurnOf(k)) /\ loaded' = loaded
      BY <2>2, <2>3
    <3> QED
      BY <3>1, <3>2, <3>3 DEF Latest, Continues
  <2>4. memory'[c] = memory[c] \/ \E k \in Calls : SaveMemory(k)
    <3>1. ASSUME NEW d \in Conversations, ExpireMemory(d)
          PROVE  memory'[c] = memory[c]
      BY <3>1, <1>5 DEF ExpireMemory, TypeOK
    <3> QED
      BY <3>1, MemoryFrame DEF LoadMemory
  <2> QED
    BY <2>1, <2>3, <2>4 DEF Remembering, Unanswered, Recording
<1> QED
  BY <1>4, <1>5 DEF StoryInv

\* What precedes the latest turn of a memory is what that turn's call had read and what the
\* model was shown for it (session_memory.go:104-122, service.go:306-347, 1386-1418).
THEOREM MemoryIsCoherent == Spec => []MemoryCoherent
<1>1. Init => MemoryInv /\ StoryInv
  <2> SUFFICES ASSUME Init PROVE MemoryInv /\ StoryInv
    OBVIOUS
  <2>1. /\ \A c \in Conversations : memory[c] = <<>>
        /\ \A k \in Calls : loaded[k] = <<>>
        /\ asked = {}
    BY DEF Init
  <2> QED
    BY <2>1, EmptyMemory DEF MemoryInv, StoryInv
<1>2. SafetyInv /\ MemoryInv /\ StoryInv /\ [Next]_vars => MemoryInv' /\ StoryInv'
  BY MemoryStep, StoryStep DEF SafetyInv
<1>3. SafetyInv /\ StoryInv => MemoryCoherent
  <2> SUFFICES ASSUME TypeOK, StoryInv, NEW c \in Conversations, memory[c] # <<>>
               PROVE  LET before == SubSeq(memory[c], 1, Len(memory[c]) - 2)
                          k == memory[c][Len(memory[c])].call
                          Suffix(s, t) ==
                             Len(s) <= Len(t) /\ s = SubSeq(t, Len(t) - Len(s) + 1, Len(t))
                      IN  /\ Suffix(before, loaded[k])
                          /\ \A a \in asked : a.call = k => Suffix(before, a.history)
    BY DEF SafetyInv, MemoryCoherent
  <2> DEFINE turns == memory[c]
             k == turns[Len(turns)].call
             history == loaded[k]
             before == SubSeq(turns, 1, Len(turns) - 2)
             rest == SubSeq(history, Len(history) - Len(before) + 1, Len(history))
  <2>1. /\ turns \in Seq(Turn) /\ k \in Calls /\ Continues(turns, history)
        /\ history \in Seq(Turn)
    BY DEF TypeOK, StoryInv, Latest
  <2> HIDE DEF turns, k, history
  <2>2. /\ Len(turns) \in Nat /\ Len(history) \in Nat /\ Len(turns) >= 2
        /\ Len(turns) - 2 <= Len(history)
    BY <2>1 DEF Continues
  <2>3. /\ before \in Seq(Turn) /\ Len(before) = Len(turns) - 2
        /\ \A i \in 1..(Len(turns) - 2) : before[i] = turns[i]
    <3>1. 1 \in Int /\ Len(turns) - 2 \in Int /\ 1 <= (Len(turns) - 2) + 1 /\ Len(turns) - 2 <= Len(turns)
      BY <2>2
    <3>2. \A i \in 1..(Len(turns) - 2) : 1 + i - 1 = i
      BY <2>2
    <3>3. (Len(turns) - 2) - 1 + 1 = Len(turns) - 2
      BY <2>2
    <3> QED
      BY <2>1, <3>1, <3>2, <3>3, SubSeqFacts
  <2> HIDE DEF before
  <2>4. /\ rest \in Seq(Turn) /\ Len(rest) = Len(turns) - 2
        /\ \A i \in 1..(Len(turns) - 2) :
              rest[i] = history[Len(history) - (Len(turns) - 2) + i]
    <3> DEFINE first == Len(history) - Len(before) + 1
    <3>1. /\ first \in Int /\ Len(history) \in Int /\ 1 <= first /\ first <= Len(history) + 1
          /\ Len(history) <= Len(history)
      BY <2>2, <2>3
    <3>2. Len(history) - first + 1 = Len(turns) - 2
      BY <2>2, <2>3
    <3>3. \A i \in 1..(Len(turns) - 2) : first + i - 1 = Len(history) - (Len(turns) - 2) + i
      BY <2>2, <2>3
    <3> HIDE DEF first
    <3>4. /\ SubSeq(history, first, Len(history)) \in Seq(Turn)
          /\ Len(SubSeq(history, first, Len(history))) = Len(history) - first + 1
          /\ \A i \in 1..(Len(history) - first + 1) :
                SubSeq(history, first, Len(history))[i] = history[first + i - 1]
      BY <2>1, <3>1, SubSeqFacts
    <3> QED
      BY <3>2, <3>3, <3>4 DEF first
  <2> HIDE DEF rest
  <2>5. before = rest
    <3>1. \A i \in 1..(Len(turns) - 2) : before[i] = rest[i]
      BY <2>1, <2>3, <2>4 DEF Continues
    <3> QED
      BY <2>3, <2>4, <3>1, SeqEqual
  <2>6. \A a \in asked : a.call = k => a.history = history
    BY DEF StoryInv, history
  <2> QED
    BY <2>2, <2>3, <2>5, <2>6 DEF before, rest, turns, k, history
<1> QED
  BY <1>1, <1>2, <1>3, SafetyInvariant, PTL DEF Spec
=============================================================================
