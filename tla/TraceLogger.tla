---------------------------- MODULE TraceLogger ----------------------------
(***************************************************************************)
(* The asynchronous trace logger (internal/chat/trace_logger.go): a        *)
(* bounded channel that the request goroutines offer records to without    *)
(* ever blocking, and one goroutine that saves them one at a time.         *)
(***************************************************************************)
EXTENDS Naturals, Sequences

CONSTANTS
    Records,    \* the trace records offered to the logger, each at most once
    QueueSize   \* traceLogQueueSize

ASSUME QueueSizeAssumption == QueueSize \in Nat \ {0}

VARIABLES
    queue,    \* the channel
    saving,   \* what the run goroutine took and has not finished with: none or one record
    stored,   \* rows of cs_trace_log
    lost      \* ghost: records that were dropped, failed to save, or died with the process

logVars == <<queue, saving, stored, lost>>

Queued == { queue[i] : i \in DOMAIN queue }
Offered == Queued \cup saving \cup stored \cup lost

TypeOK ==
    /\ queue \in Seq(Records)
    /\ saving \in SUBSET Records
    /\ stored \in SUBSET Records
    /\ lost \in SUBSET Records

Init ==
    /\ queue = <<>>
    /\ saving = {}
    /\ stored = {}
    /\ lost = {}

\* Enqueue: the select's send when there is room, its default branch when there is not.
Enqueue(record) ==
    /\ \/ /\ Len(queue) < QueueSize
          /\ queue' = Append(queue, record)
          /\ UNCHANGED lost
       \/ /\ Len(queue) >= QueueSize
          /\ lost' = lost \cup {record}
          /\ UNCHANGED queue
    /\ UNCHANGED <<saving, stored>>

\* Mutant: the record stays in the channel while it is saved.
Take_Peek ==
    /\ saving = {}
    /\ queue # <<>>
    /\ saving' = {Head(queue)}
    /\ UNCHANGED <<queue, stored, lost>>

\* run: receive the next record.
Take ==
    /\ saving = {}
    /\ queue # <<>>
    /\ saving' = {Head(queue)}
    /\ queue' = Tail(queue)
    /\ UNCHANGED <<stored, lost>>

\* Mutant: a save that timed out after writing the row is tried again.
SaveOK_Retried ==
    /\ saving # {}
    /\ stored' = stored \cup saving
    /\ \/ saving' = {} /\ UNCHANGED queue
       \/ \E record \in saving : Len(queue) < QueueSize /\ queue' = Append(queue, record) /\ saving' = {}
    /\ UNCHANGED lost

\* run: SaveTraceLog wrote the row, whether or not the caller heard of it in time.
SaveOK ==
    /\ saving # {}
    /\ stored' = stored \cup saving
    /\ saving' = {}
    /\ UNCHANGED <<queue, lost>>

\* Mutant: the record is queued again.
SaveFailed_Retry ==
    /\ saving # {}
    /\ Len(queue) < QueueSize
    /\ \E record \in saving : queue' = Append(queue, record)
    /\ saving' = {}
    /\ UNCHANGED <<stored, lost>>

\* run: SaveTraceLog failed or timed out; the error is logged and the record forgotten.
SaveFailed ==
    /\ saving # {}
    /\ lost' = lost \cup saving
    /\ saving' = {}
    /\ UNCHANGED <<queue, stored>>

\* The process stops: the channel and the record in hand go with it.
Stop ==
    /\ lost' = lost \cup Queued \cup saving
    /\ queue' = <<>>
    /\ saving' = {}
    /\ UNCHANGED stored

Run == Take \/ SaveOK \/ SaveFailed

Next == Run \/ Stop \/ \E record \in Records \ Offered : Enqueue(record)

Spec == Init /\ [][Next]_logVars /\ WF_logVars(Run)

-----------------------------------------------------------------------------
\* A record is in one place only: it is never queued twice, never saved and still queued,
\* never counted lost once it is in the table (the hand-over channel -> run -> store).
SinglePlace ==
    /\ \A i, j \in DOMAIN queue : queue[i] = queue[j] => i = j
    /\ Queued \cap (saving \cup stored \cup lost) = {}
    /\ saving \cap (stored \cup lost) = {}
    /\ stored \cap lost = {}

\* Whatever is offered is settled: the run loop of trace_logger.go:44-52 leaves no record
\* waiting for ever, even when saves fail.
EventuallySettled ==
    \A record \in Records : (record \in Offered) ~> (record \in stored \cup lost)

\* What the requests rely on, whatever the channel and the goroutine do.
Promise == INSTANCE LossyLog WITH pending <- Queued \cup saving

\* Every step of the logger is one of the promise: a record is offered once, goes from the
\* channel to the table or is lost, never comes back, and none waits for ever although only
\* the goroutine as a whole is scheduled fairly (trace_logger.go:28-52).
KeepsPromise == Promise!Spec
=============================================================================
