------------------------ MODULE TraceLoggerTheorems ------------------------
(***************************************************************************)
(* The trace logger keeps each record in one place and keeps its promise,  *)
(* for any set of records and any size of the channel.                     *)
(***************************************************************************)
EXTENDS TraceLogger, TLAPS

\* What a record that is appended or taken does to the set of queued records.
LEMMA AppendAdds ==
    ASSUME NEW s \in Seq(Records), NEW r \in Records
    PROVE  /\ Append(s, r) \in Seq(Records)
           /\ Len(Append(s, r)) = Len(s) + 1
           /\ { Append(s, r)[i] : i \in DOMAIN Append(s, r) } = { s[i] : i \in DOMAIN s } \cup {r}
<1>1. /\ DOMAIN s = 1..Len(s)
      /\ DOMAIN Append(s, r) = 1..(Len(s) + 1)
      /\ Len(s) \in Nat
      /\ \A i \in 1..Len(s) : Append(s, r)[i] = s[i]
      /\ Append(s, r)[Len(s) + 1] = r
  OBVIOUS
<1>2. 1..(Len(s) + 1) = (1..Len(s)) \cup {Len(s) + 1}
  BY <1>1
<1> QED BY <1>1, <1>2

LEMMA TailRemoves ==
    ASSUME NEW s \in Seq(Records), s # <<>>
    PROVE  /\ Head(s) \in Records
           /\ Tail(s) \in Seq(Records)
           /\ Len(Tail(s)) = Len(s) - 1
           /\ \A i \in DOMAIN Tail(s) : i + 1 \in DOMAIN s /\ Tail(s)[i] = s[i + 1]
           /\ { s[i] : i \in DOMAIN s } = { Tail(s)[i] : i \in DOMAIN Tail(s) } \cup {Head(s)}
<1>1. /\ DOMAIN s = 1..Len(s) /\ Len(s) \in Nat \ {0}
      /\ Tail(s) \in Seq(Records) /\ Len(Tail(s)) = Len(s) - 1
      /\ DOMAIN Tail(s) = 1..(Len(s) - 1)
      /\ Head(s) = s[1] /\ 1 \in DOMAIN s /\ s[1] \in Records
  OBVIOUS
<1>2. \A i \in 1..(Len(s) - 1) : i + 1 \in 1..Len(s) /\ Tail(s)[i] = s[i + 1]
  BY <1>1
<1>3. \A j \in 1..Len(s) : j = 1 \/ (j - 1 \in 1..(Len(s) - 1) /\ Tail(s)[j - 1] = s[j])
  BY <1>1, <1>2
<1> DEFINE all == { s[i] : i \in DOMAIN s }
           rest == { Tail(s)[i] : i \in DOMAIN Tail(s) }
<1>4. all \subseteq rest \cup {Head(s)}
  <2> SUFFICES ASSUME NEW j \in 1..Len(s) PROVE s[j] \in rest \cup {Head(s)}
    BY <1>1
  <2> QED BY <1>1, <1>3
<1>5. rest \cup {Head(s)} \subseteq all
  <2>1. Head(s) \in all
    BY <1>1
  <2>2. ASSUME NEW i \in 1..(Len(s) - 1) PROVE Tail(s)[i] \in all
    BY <1>1, <1>2
  <2> QED BY <1>1, <2>1, <2>2
<1> QED BY <1>1, <1>2, <1>4, <1>5

\* The writer has at most one record in hand, and every record is in one place.
LoggerInv ==
    /\ TypeOK
    /\ saving = {} \/ \E r \in Records : saving = {r}
    /\ SinglePlace

LEMMA LoggerInvInit == Init => LoggerInv
<1> SUFFICES ASSUME Init PROVE LoggerInv
  OBVIOUS
<1>1. queue = <<>> /\ queue \in Seq(Records) /\ Len(queue) = 0 /\ DOMAIN queue = {}
  BY DEF Init
<1> QED BY <1>1, QueueSizeAssumption DEF Init, LoggerInv, TypeOK, SinglePlace, Queued

LEMMA EnqueueKeepsInv ==
    ASSUME LoggerInv, NEW r \in Records \ Offered, Enqueue(r)
    PROVE  LoggerInv'
<1> USE DEF LoggerInv, TypeOK
<1>1. CASE Len(queue) < QueueSize /\ queue' = Append(queue, r) /\ lost' = lost
  <2>1. /\ queue' \in Seq(Records)
        /\ Queued' = Queued \cup {r}
    BY <1>1, AppendAdds, QueueSizeAssumption DEF Queued
  <2>2. \A i, j \in DOMAIN queue' : queue'[i] = queue'[j] => i = j
    <3>1. /\ DOMAIN queue = 1..Len(queue) /\ DOMAIN queue' = 1..(Len(queue) + 1)
          /\ Len(queue) \in Nat
          /\ \A i \in 1..Len(queue) : queue'[i] = queue[i]
          /\ queue'[Len(queue) + 1] = r
      BY <1>1
    <3>2. \A i \in 1..Len(queue) : queue[i] # r
      BY <3>1 DEF Offered, Queued
    <3>3. \A i \in DOMAIN queue' : i \in 1..Len(queue) \/ i = Len(queue) + 1
      BY <3>1
    <3> QED BY <3>1, <3>2, <3>3 DEF SinglePlace
  <2> QED BY <1>1, <2>1, <2>2 DEF Enqueue, SinglePlace, Offered
<1>2. CASE Len(queue) >= QueueSize /\ lost' = lost \cup {r} /\ queue' = queue
  <2>1. Queued' = Queued
    BY <1>2 DEF Queued
  <2> QED BY <1>2, <2>1 DEF Enqueue, SinglePlace, Offered
<1> QED BY <1>1, <1>2 DEF Enqueue

LEMMA TakeKeepsInv ==
    ASSUME LoggerInv, Take
    PROVE  LoggerInv' /\ (Queued \cup saving)' = Queued \cup saving
<1> USE DEF LoggerInv, TypeOK
<1>1. /\ Head(queue) \in Records /\ queue' \in Seq(Records)
      /\ Len(queue') = Len(queue) - 1
      /\ \A i \in DOMAIN queue' : i + 1 \in DOMAIN queue /\ queue'[i] = queue[i + 1]
      /\ Queued = Queued' \cup {Head(queue)}
  BY TailRemoves DEF Take, Queued
<1>2. /\ DOMAIN queue = 1..Len(queue) /\ Len(queue) \in Nat /\ Head(queue) = queue[1]
      /\ DOMAIN queue' = 1..(Len(queue) - 1) /\ 1 \in DOMAIN queue
  BY <1>1 DEF Take
<1>3. Head(queue) \notin Queued'
  <2> SUFFICES ASSUME NEW i \in DOMAIN queue', queue'[i] = queue[1] PROVE FALSE
    BY <1>2 DEF Queued
  <2> QED BY <1>1, <1>2 DEF SinglePlace
<1>4. \A i, j \in DOMAIN queue' : queue'[i] = queue'[j] => i = j
  <2> SUFFICES ASSUME NEW i \in DOMAIN queue', NEW j \in DOMAIN queue', queue'[i] = queue'[j]
               PROVE  i = j
    OBVIOUS
  <2>1. i + 1 = j + 1
    BY <1>1 DEF SinglePlace
  <2> QED BY <2>1, <1>2
<1> QED BY <1>1, <1>2, <1>3, <1>4, QueueSizeAssumption DEF Take, SinglePlace

LEMMA RestKeepsInv ==
    ASSUME LoggerInv, SaveOK \/ SaveFailed \/ Stop \/ UNCHANGED logVars
    PROVE  LoggerInv'
<1> USE DEF LoggerInv, TypeOK, SinglePlace
<1>1. CASE SaveOK
  BY <1>1 DEF SaveOK, Queued
<1>2. CASE SaveFailed
  BY <1>2 DEF SaveFailed, Queued
<1>3. CASE Stop
  <2>1. queue' = <<>> /\ Len(queue') = 0 /\ DOMAIN queue' = {} /\ Queued' = {}
    BY <1>3 DEF Stop, Queued
  <2>2. Queued \subseteq Records
    BY DEF Queued
  <2> QED BY <1>3, <2>1, <2>2, QueueSizeAssumption DEF Stop
<1>4. CASE UNCHANGED logVars
  BY <1>4 DEF logVars, Queued
<1> QED BY <1>1, <1>2, <1>3, <1>4

LEMMA LoggerInvStep == LoggerInv /\ [Next]_logVars => LoggerInv'
BY EnqueueKeepsInv, TakeKeepsInv, RestKeepsInv DEF Next, Run

LEMMA LoggerInvHolds == Spec => []LoggerInv
BY LoggerInvInit, LoggerInvStep, PTL DEF Spec

\* SinglePlace for every set of records: no record is queued twice, saved and still queued,
\* or counted both stored and lost (trace_logger.go:28-52).
THEOREM RecordsAreInOnePlace == Spec => []SinglePlace
<1>1. LoggerInv => SinglePlace
  BY DEF LoggerInv
<1> QED BY <1>1, LoggerInvHolds, PTL

-----------------------------------------------------------------------------
(* The promise.  What the fairness of the goroutine gives each record stays with TLC. *)

LEMMA PromisedStep ==
    ASSUME LoggerInv, [Next]_logVars
    PROVE  [Promise!Next]_<<Queued \cup saving, stored, lost>>
<1> USE DEF LoggerInv, TypeOK, SinglePlace
<1>1. ASSUME NEW r \in Records \ Offered, Enqueue(r)
      PROVE  Promise!Offer(r)
  <2>1. CASE queue' = Append(queue, r) /\ lost' = lost
    <3>1. Queued' = Queued \cup {r}
      BY <2>1, AppendAdds DEF Queued
    <3> QED BY <1>1, <2>1, <3>1 DEF Enqueue, Promise!Offer, Promise!Settled, Offered
  <2>2. CASE lost' = lost \cup {r} /\ queue' = queue
    BY <1>1, <2>2 DEF Enqueue, Promise!Offer, Promise!Settled, Offered, Queued
  <2> QED BY <1>1, <2>1, <2>2 DEF Enqueue
<1>2. ASSUME Take PROVE UNCHANGED <<Queued \cup saving, stored, lost>>
  BY <1>2, TakeKeepsInv DEF Take
<1>3. ASSUME SaveOK \/ SaveFailed PROVE \E r \in Records : Promise!Settle(r)
  <2>1. PICK r \in Records : saving = {r}
    BY <1>3 DEF SaveOK, SaveFailed
  <2>2. Queued' = Queued /\ saving' = {} /\ r \notin Queued
    BY <1>3, <2>1 DEF SaveOK, SaveFailed, Queued
  <2> QED BY <1>3, <2>1, <2>2 DEF SaveOK, SaveFailed, Promise!Settle
<1>4. ASSUME Stop PROVE Promise!Stop
  <2>1. Queued' = {}
    BY <1>4 DEF Stop, Queued
  <2> QED BY <1>4, <2>1 DEF Stop, Promise!Stop
<1>5. ASSUME UNCHANGED logVars PROVE UNCHANGED <<Queued \cup saving, stored, lost>>
  BY <1>5 DEF logVars, Queued
<1> QED BY <1>1, <1>2, <1>3, <1>4, <1>5 DEF Next, Run, Promise!Next

\* The logger implements the promise: every step of the channel and the goroutine is a step
\* of LossyLog or a stutter, for any set of records and any size of the channel.
THEOREM ImplementsPromise == Spec => Promise!Safety
<1>1. Init => Promise!Init
  BY DEF Init, Promise!Init, Queued
<1> QED BY <1>1, LoggerInvHolds, PromisedStep, PTL DEF Spec, Promise!Safety, Promise!promiseVars
=============================================================================
