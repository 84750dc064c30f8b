---------------------------------- MODULE HAL ----------------------------------
(***************************************************************************)
(* hal/hal.go with its three managers, as application/                     *)
(* service_coordination.go uses it: the device table of                    *)
(* hal/device_manager.go, the protocol table of hal/protocol_manager.go,   *)
(* the resources of ResourceManager and the objects of DeviceObject.       *)
(***************************************************************************)
EXTENDS ResourceManager, DeviceObject

CONSTANTS Protocol   \* the protocol of each device in the configuration

ASSUME ProtocolAssumption == Protocol \in [Devices -> {"modbus", "serial", "custom", "mock"}]

VARIABLES devices,     \* DeviceManager.devices
          protocols,   \* ProtocolManager.protocols
          halPc,       \* progress of Start and Stop
          queued       \* history: the target of the last MoveTo handed on to the executor, per device

vars == <<rmVars, devVars, devices, protocols, halPc, queued>>

TypeOK ==
    /\ RMTypeOK /\ DevTypeOK
    /\ devices \subseteq Devices
    /\ protocols \subseteq {"modbus", "serial", "custom"}
    /\ halPc \in {"new", "protocolsUp", "resourcesUp", "running", "devicesDown", "stopped"}
    /\ queued \in [Devices -> Targets]

Init ==
    /\ RMInit /\ DevInit
    /\ devices = {} /\ protocols = {} /\ halPc = "new"
    /\ queued = [d \in Devices |-> AtRest]

Trans(from, to) == halPc = from /\ halPc' = to

\* ProtocolManager.Start: a handler for each of the three protocols that some device uses.
StartProtocols ==
    /\ Trans("new", "protocolsUp")
    /\ protocols' = {p \in {"modbus", "serial", "custom"} : \E d \in Devices : Protocol[d] = p}
    /\ UNCHANGED <<rmVars, devVars, devices, queued>>

StartResources == /\ Trans("protocolsUp", "resourcesUp") /\ RMStart
                  /\ UNCHANGED <<devVars, devices, protocols, queued>>

\* DeviceManager.Start: initializeDevice creates nothing, the table stays as it is.
StartDevices == /\ Trans("resourcesUp", "running")
                /\ UNCHANGED <<rmVars, devVars, devices, protocols, queued>>

\* Stop, in reverse order.  DeviceManager.Stop disconnects every device and empties the table.
StopDevices ==
    /\ Trans("running", "devicesDown")
    /\ connected' = [d \in Devices |-> connected[d] /\ d \notin devices]
    /\ client' = [d \in Devices |-> client[d] /\ d \notin devices]
    /\ status' = [d \in Devices |-> IF d \in devices THEN [status[d] EXCEPT !.conn = FALSE] ELSE status[d]]
    /\ raced' = [d \in Devices |-> IF d \in devices THEN Writing(d) ELSE raced[d]]
    /\ devices' = {}
    /\ UNCHANGED <<rmVars, kind, sent, wpc, wdev, wtarget, wtype, wcopy, protocols, queued>>

\* ResourceManager.Stop and ProtocolManager.Stop: nobody asks for a protocol in between.
StopResources == /\ Trans("devicesDown", "stopped") /\ RMStop /\ protocols' = {}
                 /\ UNCHANGED <<devVars, devices, queued>>

\* The application manager starts the layers above HAL after it and stops them before it, but
\* nothing in HAL refuses their calls once it is stopped.
Serving == halPc \in {"running", "devicesDown", "stopped"}

\* AddDevice: a known ID is refused, and so is a device that does not connect.  Only the
\* modbus client could fail to open.
AddDevice(d) ==
    /\ Serving /\ d \notin devices
    /\ SetConnected(d, TRUE)
    /\ devices' = devices \cup {d}
    /\ UNCHANGED <<rmVars, protocols, halPc, queued>>

RemoveDevice(d) ==
    /\ d \in devices
    /\ SetConnected(d, FALSE)
    /\ devices' = devices \ {d}
    /\ UNCHANGED <<rmVars, protocols, halPc, queued>>

\* ExecuteCommand of the coordination layer, first through the HAL: the device is looked up, and
\* written to after the table's lock was released.  An unknown device is an error and nothing
\* happens.
ExecuteCommand(w) ==
    /\ wpc[w] = "idle"
    /\ \E d \in devices, p \in Targets, ty \in {"MoveTo", "Stop", "other"} :
          /\ wdev' = [wdev EXCEPT ![w] = d] /\ wtarget' = [wtarget EXCEPT ![w] = p]
          /\ wtype' = [wtype EXCEPT ![w] = ty]
    /\ wpc' = [wpc EXCEPT ![w] = "got"]
    /\ UNCHANGED <<rmVars, kind, connected, client, status, sent, wcopy, raced, devices, protocols,
                   halPc, queued>>

\* ... and a command the HAL has executed goes to the command executor as well, which queues it
\* or refuses it (not running, queue full).
QueueCommand(w) ==
    /\ wpc[w] = "written"
    /\ WriteReturns(w)
    /\ \/ UNCHANGED queued
       \/ wtype[w] = "MoveTo" /\ queued' = [queued EXCEPT ![wdev[w]] = wtarget[w]]
    /\ UNCHANGED <<rmVars, status, sent, devices, protocols, halPc>>

StartStep == StartProtocols \/ StartResources \/ StartDevices
StopStep == StopDevices \/ StopResources

Next ==
    \/ StartStep \/ StopStep
    \/ \E t \in Tasks : Serving /\ TaskStep(t) /\ UNCHANGED <<devVars, devices, protocols, halPc, queued>>
    \/ \E d \in Devices : AddDevice(d) \/ RemoveDevice(d)
    \/ \E w \in Writers : ExecuteCommand(w) \/ QueueCommand(w)
    \/ \E w \in Writers : WriteStep(w) /\ UNCHANGED <<rmVars, devices, protocols, halPc, queued>>

Spec == Init /\ [][Next]_vars

-----------------------------------------------------------------------------
\* What Status() of a device reports, and what the coordination layer hands on to the executor as
\* done, is what some MoveTo brought to the device entirely: a Write whose second half failed
\* changes neither.  The two are compared as on the wire: of a position from 0.256 on, or such a
\* velocity, the hardware wrapper sends the low byte and reports the whole.  (The modbus device is
\* left out: it also reports the position field of a Stop or Home command.)
ReportedWasSent ==
    \A d \in Devices : kind[d] # "modbus" =>
        \A t \in {status[d].target, queued[d]} : Wire(kind[d], t) \in sent[d]
=============================================================================
