-------------------------- MODULE MCPyInterpreter --------------------------
(* Threads for TLC: the coordinator of a parallel query and its worker. *)
EXTENDS PyInterpreter

CONSTANTS qc, worker

\* The worker's operator stands on that of a view that is not merged.
Mixed == [t \in Threads |-> IF t = worker THEN 2 ELSE 1]

\* The coordinator's rows come from the worker, which predicts too.
Parallel == [t \in Threads |-> IF t = qc THEN worker ELSE NoThread]
=============================================================================
