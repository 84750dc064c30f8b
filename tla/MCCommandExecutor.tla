-------------------------- MODULE MCCommandExecutor --------------------------
(* Constants for model-checking the executor with its queue. *)
EXTENDS CommandExecutor

MCIds == {<<"a", "1">>, <<"a", "2">>}
MCDeviceOf == [id \in Ids |-> "d"]
MCDevices == {"d"}
MCPushStop == {"Push", "Stop"}
MCPushOnly == {"Push"}
=============================================================================
