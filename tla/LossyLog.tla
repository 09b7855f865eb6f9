------------------------------ MODULE LossyLog ------------------------------
(***************************************************************************)
(* What the trace logger promises, without its channel and its goroutine:  *)
(* a record that is offered is stored or lost, once and for ever, and      *)
(* never waits for good.  A stop of the process loses whatever waits.      *)
(***************************************************************************)
CONSTANT Records

VARIABLES pending, stored, lost

promiseVars == <<pending, stored, lost>>

Settled == stored \cup lost

Init == pending = {} /\ stored = {} /\ lost = {}

Offer(record) ==
    /\ record \notin pending \cup Settled
    /\ \/ pending' = pending \cup {record} /\ UNCHANGED lost
       \/ lost' = lost \cup {record} /\ UNCHANGED pending
    /\ UNCHANGED stored

Settle(record) ==
    /\ record \in pending
    /\ pending' = pending \ {record}
    /\ \/ stored' = stored \cup {record} /\ UNCHANGED lost
       \/ lost' = lost \cup {record} /\ UNCHANGED stored

Stop ==
    /\ pending' = {}
    /\ lost' = lost \cup pending
    /\ UNCHANGED stored

Next == Stop \/ \E record \in Records : Offer(record) \/ Settle(record)

Safety == Init /\ [][Next]_promiseVars

Spec == Safety /\ \A record \in Records : WF_promiseVars(Settle(record))
=============================================================================
