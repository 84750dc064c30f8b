-------------------------- MODULE MCExecutionQueue --------------------------
(* Constants for model-checking the execution queue on its own. *)
EXTENDS ExecutionQueue

\* Two commands of one task.
MCIds == {<<"a", "1">>, <<"a", "2">>}
MCOps == {"Push", "RemoveByTaskID", "Clear"}
MCSymmetry == Permutations(Clients)
=============================================================================
