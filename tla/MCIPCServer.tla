----------------------------- MODULE MCIPCServer -----------------------------
(* One client that sends an emergency stop and a query through channels   *)
(* of one place.                                                           *)
EXTENDS IPCServer
MCScript == [c \in Clients |-> <<[id |-> "r1", command |-> "stop"], [id |-> "r2", command |-> "query"]>>]
=============================================================================
