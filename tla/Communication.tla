----------------------------- MODULE Communication -----------------------------
(***************************************************************************)
(* The clients of hardware/protocols (serial, modbus, custom) over         *)
(* hardware/comm/base.go.  A link is what a client keeps of a connection:  *)
(* its protocol, the status of BaseCommunication, whether its handle       *)
(* (port, handler, connection) is set, whether closing it has failed, and  *)
(* for the serial client whether a listener is inside its Read, holding    *)
(* the client's mutex.  Each operation is the set of links it can leave    *)
(* behind, empty while it waits for that mutex: opening and closing the    *)
(* device are external and may fail.                                       *)
(***************************************************************************)
EXTENDS Naturals

Protocols == {"serial", "modbus", "custom"}

Link == [proto : Protocols, status : {"Disconnected", "Connecting", "Connected", "Error"},
         handle : BOOLEAN, closeFailed : BOOLEAN, reading : BOOLEAN]

NewLink(p) == [proto |-> p, status |-> "Disconnected", handle |-> FALSE, closeFailed |-> FALSE, reading |-> FALSE]

\* Where SetStatus and the assignment of the handle leave a link.
Opened(l) == [l EXCEPT !.status = "Connected", !.handle = TRUE, !.closeFailed = FALSE]
Failed(l) == [l EXCEPT !.status = "Error", !.closeFailed = FALSE]
Dropped(l) == [l EXCEPT !.status = "Disconnected", !.handle = FALSE, !.closeFailed = FALSE]

-----------------------------------------------------------------------------
(* Connect.                                                                *)

\* The port is stored under the client's mutex; a Connect that succeeds starts a listener.
SerialConnect(l) == {Failed(l)} \cup (IF l.reading THEN {} ELSE {Opened(l)})

\* A type other than tcp, rtu and ascii returns before the status is settled.
ModbusConnect(l) == {Opened(l), Failed(l), [l EXCEPT !.status = "Connecting"]}

\* The custom client's connection is a stub that always opens.
CustomConnect(l) == {Opened(l)}

ConnectResults(l) ==
    CASE l.proto = "serial" -> SerialConnect(l)
      [] l.proto = "modbus" -> ModbusConnect(l)
      [] l.proto = "custom" -> CustomConnect(l)

-----------------------------------------------------------------------------
(* Disconnect, Reconnect.                                                  *)

\* The serial client drops its port before it looks at the error of Close, and then leaves
\* without setting the status.
SerialDisconnect(l) ==
    IF l.reading THEN {}
    ELSE {Dropped(l)} \cup (IF l.handle THEN {[l EXCEPT !.handle = FALSE, !.closeFailed = TRUE]} ELSE {})

\* The others never fail; the modbus client forgets its handler without closing it.
ModbusDisconnect(l) == {Dropped(l)}
CustomDisconnect(l) == {Dropped(l)}

\* Bug for a mutant: the handle is dropped and the status is left as it was.
DisconnectResultsForget(l) == {[l EXCEPT !.handle = FALSE]}

DisconnectResults(l) ==
    CASE l.proto = "serial" -> SerialDisconnect(l)
      [] l.proto = "modbus" -> ModbusDisconnect(l)
      [] l.proto = "custom" -> CustomDisconnect(l)

DisconnectFailed(l, m) == m.closeFailed /\ ~l.closeFailed

\* Reconnect is Disconnect and, unless that failed, Connect.
ReconnectResults(l) ==
    UNION {IF DisconnectFailed(l, m) THEN {m} ELSE ConnectResults(m) : m \in DisconnectResults(l)}

-----------------------------------------------------------------------------
(* listenForData: looks at stopChan, then takes the client's mutex and, if *)
(* the port is set, keeps it over a Read that waits for a byte             *)
(* (MinimumReadSize 1).  Disconnect closes stopChan and makes a new one    *)
(* under the mutex, so a listener may miss it and go on; whether it does   *)
(* makes no difference, since whoever sets the port starts another.        *)

CanListen(l) == l.proto = "serial" /\ l.handle /\ ~l.reading
Listening(l) == [l EXCEPT !.reading = TRUE]
Heard(l) == [l EXCEPT !.reading = FALSE]

-----------------------------------------------------------------------------
(* The checks of Read and Write (and of the bulk operations, which call    *)
(* them one by one), before anything is sent.  An error later on leaves    *)
(* the link as it is: HandleWithError only records it.                     *)

\* Addresses are numbers for the serial and the modbus client: a name such as "position",
\* which device.go uses, is refused.
SerialAccepts(l, named) == l.status = "Connected" /\ l.handle /\ ~named
ModbusAccepts(l, named) == l.status = "Connected" /\ ~named

\* A custom client needs a "read" or "write" command in its table.
CustomAccepts(l, defined) == l.status = "Connected" /\ defined

Accepts(l, named, defined) ==
    CASE l.proto = "serial" -> SerialAccepts(l, named)
      [] l.proto = "modbus" -> ModbusAccepts(l, named)
      [] l.proto = "custom" -> CustomAccepts(l, defined)
=============================================================================
