--------------------------- MODULE MCTaskScheduler ---------------------------
(* Constants for model-checking the task scheduler. *)
EXTENDS TaskScheduler

\* An emergency task and one with an unknown priority, which is queued as medium.
MCTasks == {"stop", "odd"}
MCIdOf == [t \in MCTasks |-> t]
MCPriorityOf == [t \in MCTasks |-> IF t = "stop" THEN 0 ELSE 7]
=============================================================================
