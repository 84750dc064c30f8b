----------------------------- MODULE DeviceObject -----------------------------
(***************************************************************************)
(* device/device.go: the device objects behind core.Device.  connected     *)
(* and the status record are each read and written under the object's      *)
(* lock, but Write reads, sends and stores in separate critical sections,  *)
(* while Connect and Disconnect come from other goroutines.                *)
(***************************************************************************)
EXTENDS Naturals

CONSTANTS Devices,    \* device objects
          Writers,    \* goroutines that call Write
          Targets,    \* position and velocity of a command, in thousandths
          NoDevice

AtRest == [pos |-> 0, vel |-> 0]

ASSUME DeviceAssumption ==
    NoDevice \notin Devices /\ Targets \subseteq [pos : Nat, vel : Nat] /\ AtRest \in Targets

VARIABLES kind,       \* which implementation createDevice chose
          connected,  \* BaseDevice.connected
          client,     \* ModbusDevice.client is not nil
          status,     \* BaseDevice.status: Connected, Position and Velocity
          sent,       \* history: what a MoveTo brought to the device entirely, as on the wire
          wpc, wdev, wtarget, wtype, wcopy,
          raced       \* history: the last Connect or Disconnect came in the middle of a Write

devVars == <<kind, connected, client, status, sent, wpc, wdev, wtarget, wtype, wcopy, raced>>

Kinds == {"mock", "modbus", "hardware"}

\* createDevice: the hardware wrapper whenever the factory knows the protocol, else the
\* two older implementations; nothing for other protocols.
KindOf(protocol, supported) ==
    CASE supported -> "hardware"
      [] ~supported /\ protocol \in {"mock", "modbus"} -> protocol
      [] OTHER -> "none"

Status == [conn : BOOLEAN, target : Targets]

\* What goes over the wire.  The hardware wrapper sends byte(x * 1000), of which the low eight
\* bits are left, the modbus device uint16(x * 1000) of the position alone.  (A float beyond the
\* integer type is converted through a wider integer on the targets the program is built for.)
Wire(k, t) ==
    CASE k = "hardware" -> [pos |-> t.pos % 256, vel |-> t.vel % 256]
      [] k = "modbus"   -> [pos |-> t.pos % 65536, vel |-> 0]
      [] OTHER          -> t

DevTypeOK ==
    /\ kind \in [Devices -> Kinds]
    /\ connected \in [Devices -> BOOLEAN] /\ client \in [Devices -> BOOLEAN]
    /\ status \in [Devices -> Status]
    /\ sent \in [Devices -> SUBSET [pos : Nat, vel : Nat]] /\ raced \in [Devices -> BOOLEAN]
    /\ wpc \in [Writers -> {"idle", "got", "position", "velocity", "copy", "store", "written"}]
    /\ wdev \in [Writers -> Devices \cup {NoDevice}]
    /\ wtarget \in [Writers -> Targets] /\ wcopy \in [Writers -> BOOLEAN]
    /\ wtype \in [Writers -> {"MoveTo", "Stop", "other"}]

DevInit ==
    /\ kind \in [Devices -> {KindOf(p, s) : p \in {"mock", "modbus", "serial"},
                                            s \in BOOLEAN} \ {"none"}]
    /\ connected = [d \in Devices |-> FALSE] /\ client = connected /\ raced = connected
    /\ status = [d \in Devices |-> [conn |-> FALSE, target |-> AtRest]]
    /\ sent = [d \in Devices |-> {AtRest}]
    /\ wpc = [w \in Writers |-> "idle"] /\ wdev = [w \in Writers |-> NoDevice]
    /\ wtarget = [w \in Writers |-> AtRest] /\ wcopy = [w \in Writers |-> FALSE]
    /\ wtype = [w \in Writers |-> "Stop"]

\* A Write of the object is past its check and may still store a status.
Writing(d) == \E w \in Writers : wdev[w] = d /\ wpc[w] \in {"position", "velocity", "copy", "store"}

\* Bug for a mutant: the status record keeps its flag.
SetConnectedFlagOnly(d, b) ==
    /\ connected' = [connected EXCEPT ![d] = b]
    /\ client' = [client EXCEPT ![d] = b /\ kind[d] = "modbus"]
    /\ raced' = [raced EXCEPT ![d] = Writing(d)]
    /\ UNCHANGED <<kind, status, sent, wpc, wdev, wtarget, wtype, wcopy>>

\* SetConnected, with the history of whether it interrupts a Write.
SetConnected(d, b) ==
    /\ connected' = [connected EXCEPT ![d] = b]
    /\ status' = [status EXCEPT ![d].conn = b]
    /\ client' = [client EXCEPT ![d] = b /\ kind[d] = "modbus"]
    /\ raced' = [raced EXCEPT ![d] = Writing(d)]
    /\ UNCHANGED <<kind, sent, wpc, wdev, wtarget, wtype, wcopy>>

-----------------------------------------------------------------------------
(* Write(cmd).  A caller that has the object in hand is at "got", and at    *)
(* "written" when Write has returned no error.                             *)

\* The caller is done: Write returned an error, or nothing is left to do.
WriteReturns(w) ==
    /\ wpc' = [wpc EXCEPT ![w] = "idle"] /\ wdev' = [wdev EXCEPT ![w] = NoDevice]
    /\ wtarget' = [wtarget EXCEPT ![w] = AtRest] /\ wcopy' = [wcopy EXCEPT ![w] = FALSE]
    /\ wtype' = [wtype EXCEPT ![w] = "Stop"]
    /\ UNCHANGED <<kind, connected, client, raced>>

Goto(w, label) ==
    /\ wpc' = [wpc EXCEPT ![w] = label]
    /\ UNCHANGED <<kind, connected, client, wdev, wtarget, wtype, raced>>

\* The wire form of the command's target has reached the device.
Delivered(w) == [sent EXCEPT ![wdev[w]] = @ \cup {Wire(kind[wdev[w]], wtarget[w])}]

\* The connectivity check; only the mock takes commands other than MoveTo, Stop and Home
\* (which the model calls Stop: both write one register).
WriteCheck(w) ==
    LET d == wdev[w]
        ok == /\ connected[d]
              /\ kind[d] = "modbus" => client[d]
              /\ kind[d] # "mock" => wtype[w] # "other"
    IN /\ wpc[w] = "got"
       /\ IF ~ok THEN WriteReturns(w) /\ UNCHANGED <<status, sent>>
          ELSE /\ Goto(w, IF kind[d] = "mock" THEN "store" ELSE "position")
               /\ wcopy' = [wcopy EXCEPT ![w] = kind[d] = "mock"]
               /\ sent' = IF kind[d] = "mock" THEN Delivered(w) ELSE sent
               /\ UNCHANGED status

\* The position registers (or the stop or home register).  The hardware's answer may be an
\* error; a modbus client that was closed in between is one.
WritePosition(w) ==
    LET d == wdev[w] IN
    /\ wpc[w] = "position"
    /\ \/ /\ kind[d] = "hardware" \/ ~client[d]
          /\ WriteReturns(w) /\ UNCHANGED <<status, sent>>
       \/ /\ kind[d] = "modbus" /\ client[d]
          /\ sent' = IF wtype[w] = "MoveTo" THEN Delivered(w) ELSE sent
          /\ Goto(w, "copy") /\ UNCHANGED <<status, wcopy>>
       \/ /\ kind[d] = "hardware" /\ wtype[w] = "MoveTo"
          /\ Goto(w, "velocity") /\ UNCHANGED <<status, sent, wcopy>>
       \/ /\ kind[d] = "hardware" /\ wtype[w] # "MoveTo"
          /\ Goto(w, "written") /\ UNCHANGED <<status, sent, wcopy>>

\* Bug for a mutant: an error of the velocity write is ignored.
WriteVelocityUnchecked(w) ==
    /\ wpc[w] = "velocity"
    /\ sent' \in {sent, Delivered(w)}
    /\ Goto(w, "copy") /\ UNCHANGED <<status, wcopy>>

WriteVelocity(w) ==
    /\ wpc[w] = "velocity"
    /\ \/ WriteReturns(w) /\ UNCHANGED <<status, sent>>
       \/ /\ sent' = Delivered(w)
          /\ Goto(w, "copy") /\ UNCHANGED <<status, wcopy>>

\* updateStatus reads the whole record and stores it later; the mock stores Connected = true.
CopyStatus(w) ==
    /\ wpc[w] = "copy"
    /\ wcopy' = [wcopy EXCEPT ![w] = status[wdev[w]].conn]
    /\ Goto(w, "store") /\ UNCHANGED <<status, sent>>

StoreStatus(w) ==
    /\ wpc[w] = "store"
    /\ status' = [status EXCEPT ![wdev[w]] = [conn |-> wcopy[w], target |-> wtarget[w]]]
    /\ wcopy' = [wcopy EXCEPT ![w] = FALSE]
    /\ Goto(w, "written") /\ UNCHANGED sent

WriteStep(w) == WriteCheck(w) \/ WritePosition(w) \/ WriteVelocity(w) \/ CopyStatus(w) \/ StoreStatus(w)

-----------------------------------------------------------------------------
\* What Status() reports as connected is what Write goes by, unless the last Connect or
\* Disconnect came in the middle of a Write, which stores the flag it read before: the next
\* Connect or Disconnect that no Write overlaps always repairs the flag.
StatusAgrees == \A d \in Devices : status[d].conn = connected[d] \/ raced[d]
=============================================================================
