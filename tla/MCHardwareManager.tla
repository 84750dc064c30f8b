--------------------------- MODULE MCHardwareManager ---------------------------
(* The hardware manager on a small instance: one ID, used again after its  *)
(* device is removed, with clients of every protocol and everything that   *)
(* is done to them; and two devices of which a serial one may hold up the  *)
(* other.                                                                  *)
EXTENDS HardwareManager

Env(protos, ids, does) == [proto |-> protos, ids |-> ids, does |-> does]
Changes == {"remove", "fail"}

MCEnvironments ==
    {Env(<<"serial", "custom">>, {"a"}, Calls \cup Changes),
     Env(<<"modbus", "custom">>, {"a"}, Calls \cup Changes),
     Env(<<"serial", "custom">>, {"a"}, {"io", "remove", "stop"}),
     Env(<<"serial", "modbus">>, {"a", "b"}, {"disconnect"}),
     Env(<<"serial", "modbus">>, {"a", "b"}, {"remove"})}
=============================================================================
