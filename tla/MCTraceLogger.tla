--------------------------- MODULE MCTraceLogger ---------------------------
(***************************************************************************)
(* A small instance of the trace logger for TLC.                           *)
(***************************************************************************)
EXTENDS TraceLogger

CONSTANTS t1, t2, t3, t4  \* trace records
=============================================================================
