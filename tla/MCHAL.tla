--------------------------------- MODULE MCHAL ---------------------------------
(* A task wants two axes and a direct caller the second one; another          *)
(* requirement spans two types and names a device that is not configured.     *)
EXTENDS HAL, TLC

CONSTANTS t1, t2, t3, d1

MCTypes == {"axis", "device", "safety"}
MCConfigured == {<<"axis", "x">>, <<"axis", "y">>, <<"safety", "s">>}
MCNeed(a, d, s) == [ty \in MCTypes |-> CASE ty = "axis" -> a [] ty = "device" -> d [] ty = "safety" -> s]
MCNeeds == t1 :> MCNeed(<<"x", "y">>, <<>>, <<>>) @@ t2 :> MCNeed(<<"y">>, <<>>, <<>>)
           @@ t3 :> MCNeed(<<>>, <<"q">>, <<"s">>)
MCTargets == {AtRest, [pos |-> 300, vel |-> 256]}
MCProtocol == d1 :> "modbus"
=============================================================================
