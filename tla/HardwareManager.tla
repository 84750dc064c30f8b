---------------------------- MODULE HardwareManager ----------------------------
(***************************************************************************)
(* hardware/devices/manager.go behind hardware/factory.go: the table of    *)
(* hardware devices, the goroutines that connect them (AutoConnect, the    *)
(* automatic scan), callers that connect, disconnect and write, and Stop.  *)
(*                                                                         *)
(* Every AddDevice makes a new object.  Connect, Disconnect and Reconnect  *)
(* hold the object's mutex throughout and everything that looks at the     *)
(* link takes it too, so each is one step once it has both that mutex and  *)
(* the serial client's; Read and Write hold the first for reading over     *)
(* their attempts.  Who has to wait, for the readers or for a listener,    *)
(* first takes a step to wait, with the mutexes he has: he is the object's *)
(* holder, which keeps new readers out, and the manager's, if he has dm.mu.*)
(***************************************************************************)
EXTENDS Communication, Integers, FiniteSets

CONSTANTS Ids,         \* device IDs
          Callers,     \* goroutines that call the manager
          MaxObjects,  \* bound: objects ever created
          RetryCount,  \* ConnectionConfig.RetryCount
          Environments \* bound: what a behaviour's environment does, see Environment

Objects == 1..MaxObjects

\* The protocols of the devices in the order they are added, the IDs they are added under, and what
\* is done besides: calls, removals, additions that fail, StopAutoScan and Stop.
Calls == {"connect", "disconnect", "reconnect", "io"}
Environment == [proto : [Objects -> Protocols], ids : SUBSET Ids, does : SUBSET (Calls \cup {"remove", "fail", "stop"})]

ASSUME HardwareAssumption ==
    /\ MaxObjects \in Nat /\ RetryCount \in Nat /\ "none" \notin Ids
    /\ Callers \cap {"free", "auto", "rec", "remove"} = {}
    /\ Environments \subseteq Environment

VARIABLES devices,    \* table: object stored under an ID, 0 if none
          configs,    \* IDs with a stored configuration
          idOf,       \* ID of each object, objects being created in order
          link,       \* link of each object
          auto,       \* objects whose AutoConnect goroutine has not run yet
          call,       \* what a caller is doing, with which object
          autoScan, scanTicker, \* the fields of the manager
          scanner, todo,        \* scan goroutine and the IDs it has still to look at
          scanAt,     \* the object it is looking at, 0 if none
          holder,     \* who has called Lock of an object's mutex and waits with it, "free" if nobody
          removing,   \* the ID whose RemoveDevice holds dm.mu, "none" if none
          rec,        \* reconnect goroutine of an ID: NoRec, Started, or the object it has
          ctxDone, eventChan,   \* dm.ctx is cancelled; the event channel is open
          stopPc, crashed,
          orphan,     \* history: removed while somebody was about to connect it
          scanStopped, \* history: StopAutoScan was called
          env

vars == <<devices, configs, idOf, link, auto, call, autoScan, scanTicker, scanner, todo, scanAt,
          holder, removing, rec, ctxDone, eventChan, stopPc, crashed, orphan, scanStopped, env>>

NoRec == -1
Started == 0

Idle == [op |-> "idle", obj |-> 0, tries |-> 0]
Ops == {"connect", "disconnect", "reconnect", "io", "attempt"}

TypeOK ==
    /\ devices \in [Ids -> 0..MaxObjects] /\ configs \subseteq Ids
    /\ idOf \in [Objects -> Ids \cup {"none"}] /\ link \in [Objects -> Link]
    /\ auto \subseteq Objects /\ orphan \subseteq Objects
    /\ call \in [Callers -> {Idle} \cup [op : Ops, obj : Objects, tries : 0..RetryCount]]
    /\ {autoScan, scanTicker, ctxDone, eventChan, crashed, scanStopped} \subseteq BOOLEAN
    /\ scanner \in {"off", "enter", "select", "scan"} /\ todo \subseteq Ids /\ scanAt \in 0..MaxObjects
    /\ holder \in [Objects -> Callers \cup {"free", "auto", "rec", "remove"}] /\ removing \in Ids \cup {"none"}
    /\ rec \in [Ids -> NoRec..MaxObjects]
    /\ stopPc \in {"none", "cancelled", "locked", "selfLocked", "done"}
    /\ env \in Environments

Init ==
    /\ env \in Environments
    /\ devices = [i \in Ids |-> 0] /\ configs = {}
    /\ idOf = [o \in Objects |-> "none"] /\ link = [o \in Objects |-> NewLink(env.proto[o])]
    /\ auto = {} /\ orphan = {} /\ call = [c \in Callers |-> Idle]
    /\ autoScan = FALSE /\ scanTicker = FALSE /\ scanner = "off" /\ todo = {} /\ scanAt = 0
    /\ holder = [o \in Objects |-> "free"] /\ removing = "none"
    /\ rec = [i \in Ids |-> NoRec]
    /\ ctxDone = FALSE /\ eventChan = TRUE /\ stopPc = "none" /\ crashed = FALSE /\ scanStopped = FALSE

Managed == {devices[i] : i \in Ids} \ {0}
Busy(o) == \E c \in Callers : call[c].op = "attempt" /\ call[c].obj = o

\* Bug for a mutant: the object's mutex is not taken.
TakenAnyway(o, by) == TRUE

\* The object's mutex, to be taken for writing.
MutexFree(o, by) == ~Busy(o) /\ holder[o] \in {"free", by}

\* Lock of the object's mutex was called, and there are readers, or it is taken and a listener has
\* the client's.
MustWait(o) == holder[o] # "free" \/ Busy(o) \/ link[o].reading
Waits(o, by) == /\ holder[o] = "free" /\ MustWait(o)
                /\ holder' = [holder EXCEPT ![o] = by]

Unlock(o) == holder' = [holder EXCEPT ![o] = "free"]

\* dm.mu: RemoveDevice and Stop hold it while they wait for a device, and Stop keeps it for ever
\* when it waits for itself in StopAutoScan.
LockFree == removing = "none" /\ stopPc \notin {"locked", "selfLocked"}

\* Somebody holds object o, or its ID, and is going to connect it.
AboutToConnect(o) ==
    \/ o \in auto \/ rec[idOf[o]] = o
    \/ \E c \in Callers : call[c].obj = o /\ call[c].op \in {"connect", "reconnect"}

\* emitEvent: a full channel drops the event, a closed one panics.
Emit == crashed' = (crashed \/ ~eventChan)

scanVars == <<autoScan, scanTicker, scanner, todo, scanAt, scanStopped>>
lockVars == <<holder, removing>>

-----------------------------------------------------------------------------
(* AddDevice, RemoveDevice.                                                *)

\* The configuration is stored first: it stays when the object cannot be created.
AddDeviceFails(i) ==
    /\ LockFree /\ devices[i] = 0
    /\ configs' = configs \cup {i}
    /\ UNCHANGED <<devices, idOf, link, auto, call, scanVars, rec, ctxDone, eventChan, stopPc, crashed, orphan, lockVars>>

\* The factory sets AutoConnect in every configuration.
AddDevice(i) ==
    /\ LockFree /\ devices[i] = 0
    /\ \E o \in Objects :
          /\ o = Cardinality({x \in Objects : idOf[x] # "none"}) + 1
          /\ devices' = [devices EXCEPT ![i] = o]
          /\ idOf' = [idOf EXCEPT ![o] = i]
          /\ auto' = auto \cup {o}
    /\ configs' = configs \cup {i}
    /\ Emit
    /\ UNCHANGED <<link, call, scanVars, rec, ctxDone, eventChan, stopPc, orphan, lockVars>>

AutoConnect(o) ==
    /\ o \in auto /\ MutexFree(o, "auto")
    /\ auto' = auto \ {o}
    /\ \E l \in ConnectResults(link[o]) : link' = [link EXCEPT ![o] = l]
    /\ Unlock(o)
    /\ UNCHANGED <<devices, configs, idOf, call, scanVars, removing, rec, ctxDone, eventChan, stopPc, crashed, orphan>>

\* Bug for a mutant: the device is taken from the table as it is.
LeftOpen(o) == {link[o]}

\* IsConnected asks the client's status; a failing Disconnect is only logged.
Closed(o) == IF link[o].status = "Connected" THEN DisconnectResults(link[o]) ELSE {link[o]}

RemoveLocks(i) ==
    /\ LockFree /\ devices[i] # 0 /\ MustWait(devices[i]) /\ removing' = i
    /\ UNCHANGED <<devices, configs, idOf, link, auto, call, scanVars, holder, rec, ctxDone, eventChan, stopPc, crashed, orphan>>

RemoveDevice(i) ==
    LET o == devices[i] IN
    /\ (LockFree /\ o # 0) \/ removing = i
    /\ MutexFree(o, "remove")
    /\ \E l \in Closed(o) : link' = [link EXCEPT ![o] = l]
    /\ Unlock(o) /\ removing' = "none"
    /\ devices' = [devices EXCEPT ![i] = 0]
    /\ configs' = configs \ {i}
    /\ orphan' = IF AboutToConnect(o) THEN orphan \cup {o} ELSE orphan
    /\ Emit
    /\ UNCHANGED <<idOf, auto, call, scanVars, rec, ctxDone, eventChan, stopPc>>

-----------------------------------------------------------------------------
(* ConnectDevice, DisconnectDevice, ReconnectDevice, ReadDevice and        *)
(* WriteDevice: the object is looked up under the manager's lock and used  *)
(* without it.                                                             *)

Lookup(c, op) ==
    /\ LockFree /\ call[c] = Idle
    /\ \E i \in Ids : devices[i] # 0 /\ call' = [call EXCEPT ![c] = [op |-> op, obj |-> devices[i], tries |-> 0]]
    /\ UNCHANGED <<devices, configs, idOf, link, auto, scanVars, rec, ctxDone, eventChan, stopPc, crashed, orphan, lockVars>>

Operate(c) ==
    LET o == call[c].obj IN
       /\ call[c].op \in {"connect", "disconnect", "reconnect"} /\ MutexFree(o, c)
       /\ \E l \in CASE call[c].op = "connect" -> ConnectResults(link[o])
                     [] call[c].op = "disconnect" -> DisconnectResults(link[o])
                     [] call[c].op = "reconnect" -> ReconnectResults(link[o]) :
             link' = [link EXCEPT ![o] = l]
       /\ call' = [call EXCEPT ![c] = Idle] /\ Unlock(o)
       /\ UNCHANGED <<devices, configs, idOf, auto, scanVars, removing, rec, ctxDone, eventChan, stopPc, crashed, orphan>>

\* A Read or Write that passes its checks begins its attempts; others return at once.
IOBegin(c) ==
    LET o == call[c].obj IN
       /\ call[c].op = "io" /\ holder[o] = "free"
       /\ \E named, defined \in BOOLEAN :
             call' = [call EXCEPT ![c] =
                        IF Accepts(link[o], named, defined) THEN [@ EXCEPT !.op = "attempt"] ELSE Idle]
       /\ UNCHANGED <<devices, configs, idOf, link, auto, scanVars, rec, ctxDone, eventChan, stopPc, crashed, orphan, lockVars>>

\* Bug for a mutant: i <= RetryCount counts the retries, not the attempts.
IORetriesTooMany(c) ==
    /\ call[c].op = "attempt" /\ link[call[c].obj].proto = "modbus"
    /\ call[c].tries <= RetryCount /\ ~ctxDone
    /\ call' = [call EXCEPT ![c].tries = @ + 1]
    /\ UNCHANGED <<devices, configs, idOf, link, auto, scanVars, rec, ctxDone, eventChan, stopPc, crashed, orphan, lockVars>>

\* RetryWithTimeout (modbus): another attempt after an error, at most RetryCount times, not
\* once the context is done.  Serial and custom clients try once; nobody ever answers the
\* custom client, which times out.
IORetries(c) ==
    /\ call[c].op = "attempt" /\ link[call[c].obj].proto = "modbus"
    /\ call[c].tries < RetryCount /\ ~ctxDone
    /\ call' = [call EXCEPT ![c].tries = @ + 1]
    /\ UNCHANGED <<devices, configs, idOf, link, auto, scanVars, rec, ctxDone, eventChan, stopPc, crashed, orphan, lockVars>>

\* Success, the last error, or a done context; the serial client first takes its own mutex.
IOEnds(c) ==
    /\ call[c].op = "attempt" /\ ~link[call[c].obj].reading
    /\ call' = [call EXCEPT ![c] = Idle]
    /\ UNCHANGED <<devices, configs, idOf, link, auto, scanVars, rec, ctxDone, eventChan, stopPc, crashed, orphan, lockVars>>

-----------------------------------------------------------------------------
(* The automatic scan.  The factory starts it once.                        *)

\* Bug for a mutant: the ticker is made by the goroutine, later.
StartAutoScanLate ==
    /\ LockFree /\ ~autoScan /\ scanner = "off" /\ ~scanStopped
    /\ autoScan' = TRUE /\ scanner' = "enter"
    /\ UNCHANGED <<devices, configs, idOf, link, auto, call, scanTicker, todo, scanAt, scanStopped, rec, ctxDone, eventChan, stopPc, crashed, orphan, lockVars>>

StartAutoScan ==
    /\ LockFree /\ ~autoScan /\ scanner = "off" /\ ~scanStopped
    /\ autoScan' = TRUE /\ scanTicker' = TRUE /\ scanner' = "enter"
    /\ UNCHANGED <<devices, configs, idOf, link, auto, call, todo, scanAt, scanStopped, rec, ctxDone, eventChan, stopPc, crashed, orphan, lockVars>>

\* A goroutine that already waits on the stopped ticker is never woken by it again.
StopAutoScan ==
    /\ LockFree /\ autoScan
    /\ autoScan' = FALSE /\ scanTicker' = FALSE /\ scanStopped' = TRUE
    /\ UNCHANGED <<devices, configs, idOf, link, auto, call, scanner, todo, scanAt, rec, ctxDone, eventChan, stopPc, crashed, orphan, lockVars>>

\* The select evaluates dm.scanTicker.C: a nil ticker is dereferenced.
ScanEnter ==
    /\ scanner = "enter"
    /\ crashed' = (crashed \/ ~scanTicker) /\ scanner' = "select"
    /\ UNCHANGED <<devices, configs, idOf, link, auto, call, autoScan, scanTicker, todo, scanAt, scanStopped, rec, ctxDone, eventChan, stopPc, orphan, lockVars>>

ScanTick ==
    /\ scanner = "select" /\ scanTicker /\ LockFree
    /\ scanner' = (IF configs = {} THEN "enter" ELSE "scan") /\ todo' = configs
    /\ UNCHANGED <<devices, configs, idOf, link, auto, call, autoScan, scanTicker, scanAt, scanStopped, rec, ctxDone, eventChan, stopPc, crashed, orphan, lockVars>>

\* Bug for a mutant: only devices that were never connected are tried.
NeedsReconnectFresh(o) == link[o].status = "Disconnected"

NeedsReconnect(o) == link[o].status # "Connected"

\* GetDevice for one ID of the copied list, then IsConnected.  A device that is not connected gets
\* a goroutine (the model keeps one per ID at a time).
Asked(o) == rec' = IF NeedsReconnect(o) /\ rec[idOf[o]] = NoRec THEN [rec EXCEPT ![idOf[o]] = Started] ELSE rec

ScanOne(i) ==
    /\ scanner = "scan" /\ scanAt = 0 /\ i \in todo /\ LockFree
    /\ \/ devices[i] = 0 /\ rec' = rec
       \/ devices[i] # 0 /\ holder[devices[i]] = "free" /\ Asked(devices[i])
    /\ todo' = todo \ {i}
    /\ scanner' = IF todo = {i} THEN "enter" ELSE "scan"
    /\ UNCHANGED <<devices, configs, idOf, link, auto, call, autoScan, scanTicker, scanAt, scanStopped, ctxDone, eventChan, stopPc, crashed, orphan, lockVars>>

\* IsConnected waits for whoever holds the object, and the scan with it, ...
ScanWaits(i) ==
    /\ scanner = "scan" /\ scanAt = 0 /\ i \in todo /\ LockFree
    /\ devices[i] # 0 /\ holder[devices[i]] # "free"
    /\ todo' = todo \ {i} /\ scanAt' = devices[i]
    /\ UNCHANGED <<devices, configs, idOf, link, auto, call, autoScan, scanTicker, scanner, scanStopped, rec, ctxDone, eventChan, stopPc, crashed, orphan, lockVars>>

\* ... and goes on when the object is free.
ScanAsk ==
    /\ scanAt # 0 /\ holder[scanAt] = "free" /\ Asked(scanAt)
    /\ scanAt' = 0
    /\ scanner' = IF todo = {} THEN "enter" ELSE "scan"
    /\ UNCHANGED <<devices, configs, idOf, link, auto, call, autoScan, scanTicker, todo, scanStopped, ctxDone, eventChan, stopPc, crashed, orphan, lockVars>>

ScanExit ==
    /\ scanner = "select" /\ ctxDone
    /\ scanner' = "off"
    /\ UNCHANGED <<devices, configs, idOf, link, auto, call, autoScan, scanTicker, todo, scanAt, scanStopped, rec, ctxDone, eventChan, stopPc, crashed, orphan, lockVars>>

\* The goroutine asks for the device again, by ID.
ReconnectLookup(i) ==
    /\ rec[i] = Started /\ LockFree
    /\ rec' = [rec EXCEPT ![i] = IF devices[i] = 0 THEN NoRec ELSE devices[i]]
    /\ UNCHANGED <<devices, configs, idOf, link, auto, call, scanVars, ctxDone, eventChan, stopPc, crashed, orphan, lockVars>>

ReconnectRun(i) ==
    /\ rec[i] \in Objects /\ MutexFree(rec[i], "rec")
    /\ \E l \in ReconnectResults(link[rec[i]]) : link' = [link EXCEPT ![rec[i]] = l]
    /\ rec' = [rec EXCEPT ![i] = NoRec] /\ Unlock(rec[i])
    /\ UNCHANGED <<devices, configs, idOf, auto, call, scanVars, removing, ctxDone, eventChan, stopPc, crashed, orphan>>

-----------------------------------------------------------------------------
(* The serial listener, and those who wait.                                *)

waitVars == <<devices, configs, idOf, auto, call, scanVars, removing, rec, ctxDone, eventChan, stopPc, crashed, orphan>>

\* A mutex that somebody waits for is handed to him (sync.Mutex), not to the listener again.
ListenerReads(o) ==
    /\ CanListen(link[o]) /\ (holder[o] = "free" \/ Busy(o))
    /\ link' = [link EXCEPT ![o] = Listening(@)]
    /\ UNCHANGED <<waitVars, holder>>

\* External: a byte arrives, or the read fails; perhaps never.
ListenerReturns(o) ==
    /\ link[o].reading
    /\ link' = [link EXCEPT ![o] = Heard(@)]
    /\ UNCHANGED <<waitVars, holder>>

CallWaits(c) == /\ call[c].op \in {"connect", "disconnect", "reconnect"} /\ Waits(call[c].obj, c)
                /\ UNCHANGED <<waitVars, link>>

AutoWaits(o) == o \in auto /\ Waits(o, "auto") /\ UNCHANGED <<waitVars, link>>

ReconnectWaits(i) == rec[i] \in Objects /\ Waits(rec[i], "rec") /\ UNCHANGED <<waitVars, link>>

\* IsConnected has said so.
RemoveWaits(i) == /\ removing = i /\ link[devices[i]].status = "Connected" /\ Waits(devices[i], "remove")
                  /\ UNCHANGED <<waitVars, link>>

-----------------------------------------------------------------------------
(* Stop.                                                                   *)

StopCancel ==
    /\ stopPc = "none"
    /\ ctxDone' = TRUE /\ stopPc' = "cancelled"
    /\ UNCHANGED <<devices, configs, idOf, link, auto, call, scanVars, rec, eventChan, crashed, orphan, lockVars>>

StopLocks ==
    /\ stopPc = "cancelled" /\ LockFree /\ (\E o \in Managed : MustWait(o)) /\ stopPc' = "locked"
    /\ UNCHANGED <<devices, configs, idOf, link, auto, call, scanVars, lockVars, rec, ctxDone, eventChan, crashed, orphan>>

\* Under dm.mu every connected device is disconnected; then StopAutoScan, if the scan is
\* on, locks dm.mu again and never returns.
StopDevices ==
    /\ (stopPc = "cancelled" /\ LockFree) \/ stopPc = "locked"
    /\ \A o \in Managed : MutexFree(o, "free")
    /\ \E new \in [Managed -> Link] :
          /\ \A o \in Managed : new[o] \in Closed(o)
          /\ link' = [o \in Objects |-> IF o \in Managed THEN new[o] ELSE link[o]]
    /\ stopPc' = IF autoScan THEN "selfLocked" ELSE "done"
    /\ eventChan' = (eventChan /\ autoScan)
    /\ UNCHANGED <<devices, configs, idOf, auto, call, scanVars, lockVars, rec, ctxDone, crashed, orphan>>

Scan == ScanEnter \/ ScanTick \/ ScanExit \/ \E i \in Ids : ScanOne(i) \/ ScanWaits(i)
Reconnect(i) == ReconnectLookup(i) \/ ReconnectRun(i) \/ ReconnectWaits(i)
Remove(i) == removing = i /\ (RemoveDevice(i) \/ RemoveWaits(i))
IOStep(c) == IORetries(c) \/ IOEnds(c)
CallStep(c) == Operate(c) \/ CallWaits(c) \/ IOBegin(c)

Next ==
    /\ ~crashed /\ env' = env
    /\ \/ \E i \in env.ids : AddDevice(i) \/ ("fail" \in env.does /\ AddDeviceFails(i))
       \/ "remove" \in env.does /\ \E i \in Ids : RemoveLocks(i) \/ RemoveDevice(i)
       \/ \E i \in Ids : RemoveWaits(i) \/ Reconnect(i)
       \/ \E o \in Objects : AutoConnect(o) \/ AutoWaits(o) \/ ListenerReads(o) \/ ListenerReturns(o)
       \/ \E c \in Callers : CallStep(c) \/ IOStep(c) \/ \E op \in env.does \cap Calls : Lookup(c, op)
       \/ StartAutoScan \/ Scan \/ ScanAsk
       \/ "stop" \in env.does /\ (StopAutoScan \/ StopCancel)
       \/ StopLocks \/ StopDevices

Spec == Init /\ [][Next]_vars

Alive == ~crashed /\ env' = env

\* Every goroutine that has been started goes on: the scan, its reconnects, the callers, AutoConnect,
\* RemoveDevice, Stop.  A reader waits for one writer at most (sync.RWMutex), hence the SF.  The
\* modbus and custom clients' attempts end; of the serial client's, and of its listener's Read,
\* nothing is assumed: they wait for a byte that may never come.
FairSpec ==
    /\ Spec
    /\ WF_vars(Alive /\ Scan) /\ SF_vars(Alive /\ ScanAsk)
    /\ \A i \in Ids : WF_vars(Alive /\ Reconnect(i)) /\ WF_vars(Alive /\ Remove(i))
    /\ \A c \in Callers : /\ WF_vars(Alive /\ CallStep(c))
                          /\ WF_vars(Alive /\ IOStep(c) /\ link[call[c].obj].proto # "serial")
    /\ \A o \in Objects : WF_vars(Alive /\ (AutoConnect(o) \/ AutoWaits(o)))
    /\ WF_vars(Alive /\ (StopLocks \/ StopDevices))

-----------------------------------------------------------------------------
\* A Read or Write never loses its handle between its attempts, nor a listener its port under its
\* Read, whoever connects, disconnects or removes the device meanwhile: both would dereference nil.
IOKeepsHandle ==
    /\ \A c \in Callers : call[c].op = "attempt" => link[call[c].obj].handle
    /\ \A o \in Objects : link[o].reading => link[o].handle

\* A client that reports Connected has a handle, unless closing a serial port failed: then
\* it goes on reporting Connected without one, and the scan does not come to its help.
ConnectedHasHandle ==
    \A o \in Objects : link[o].status = "Connected" => link[o].handle \/ link[o].closeFailed

\* A device that was removed is not connected any more, unless somebody had it in hand to
\* connect it when it was removed.  (A handle left by a later Connect that failed is not
\* closed: the status says Error and nobody disconnects it.)
RemovedIsClosed ==
    \A o \in Objects : idOf[o] # "none" /\ o \notin Managed /\ link[o].handle
        => o \in orphan \/ link[o].status # "Connected"

\* The manager panics only after Stop closed its event channel or after StopAutoScan took
\* the ticker from the scan goroutine.
PanicOnlyWhenStopping == crashed => ~eventChan \/ scanStopped

\* Somebody has the object's mutex, or waits for it, until a byte arrives at the serial port.
StuckOnSerial(o) ==
    /\ holder[o] # "free"
    /\ link[o].reading \/ (link[o].proto = "serial" /\ Busy(o))

\* While the scan is on, a device whose connection failed is tried again (or is removed, or gets
\* connected by somebody else), whatever the scan has to wait for on the way: other devices'
\* mutexes, and dm.mu while a device is removed (manager.go:455, 649).  The exception is a serial
\* port somebody waits for and that never receives a byte (serial.go:240): it may hold up them all.
FailedIsRetried ==
    \/ \E o \in Objects : <>[]StuckOnSerial(o)
    \/ \A i \in Ids :
          (devices[i] # 0 /\ link[devices[i]].status = "Error" /\ scanner # "off")
              ~> \/ devices[i] = 0 \/ link[devices[i]].status = "Connected" \/ rec[i] # NoRec
                 \/ ctxDone \/ scanStopped \/ crashed
=============================================================================
