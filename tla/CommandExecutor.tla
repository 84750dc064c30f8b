--------------------------- MODULE CommandExecutor ---------------------------
(***************************************************************************)
(* The command executor, internal/core/executor.go, with the execution queue *)
(* it owns.  The executor is the second receiver on both of the queue's      *)
(* channels: executeCommands competes with processCommands for commands, and *)
(* the executor's handleCompletions competes with the queue's for            *)
(* completions.  Every command executeCommands receives is processed in a    *)
(* goroutine of its own.                                                     *)
(***************************************************************************)
EXTENDS ExecutionQueue

CONSTANTS
  Devices,    \* device IDs
  DeviceOf    \* Command.DeviceID of the command with a given ID

ASSUME ExecutorAssumption == DeviceOf \in [Ids -> Devices]

VARIABLES
  xrunning,     \* ce.running
  xctx,         \* ce.ctx: "none", "live", "cancelled"
  dispatcher,   \* executeCommands: "off", "run"
  listener,     \* the executor's handleCompletions: "off", "run"
  worker,       \* object -> processCommand: "none", "start", "device", "write", "ok", "fail", "done"
  xstopper,     \* Stop: "idle", "queue", "devices", "wait"
  devices,      \* the keys of ce.devices
  connected,    \* the devices that are connected
  writes        \* history: successful device writes per command ID

xvars == <<xrunning, xctx, dispatcher, listener, worker, xstopper, devices, connected, writes>>
vars == <<qvars, xvars>>

XTypeOK ==
  /\ TypeOK
  /\ xrunning \in BOOLEAN
  /\ xctx \in {"none", "live", "cancelled"}
  /\ dispatcher \in {"off", "run"} /\ listener \in {"off", "run"}
  /\ worker \in [Obj -> {"none", "start", "device", "write", "ok", "fail", "done"}]
  /\ xstopper \in {"idle", "queue", "devices", "wait"}
  /\ devices \subseteq Devices /\ connected \subseteq Devices
  /\ writes \in [Ids -> Nat]

XInit ==
  /\ Init
  /\ xrunning = FALSE
  /\ xctx = "none"
  /\ dispatcher = "off" /\ listener = "off"
  /\ worker = [o \in Obj |-> "none"]
  /\ xstopper = "idle"
  /\ devices = {} /\ connected = {}
  /\ writes = [id \in Ids |-> 0]

-----------------------------------------------------------------------------
(* Life cycle *)

\* Start starts the queue with a context derived from its own.
XStart ==
  /\ ~xrunning
  /\ Start
  /\ xrunning' = TRUE /\ xctx' = "live" /\ dispatcher' = "run" /\ listener' = "run"
  /\ UNCHANGED <<worker, xstopper, devices, connected, writes>>

\* ce.cancel(): the queue's context is a child and is cancelled with it.
XCancel ==
  /\ xctx' = "cancelled"
  /\ \/ ParentCancel
     \/ qctx # "live" /\ UNCHANGED qvars

\* HandleEvent(SystemStart): startCommandProcessing does nothing while the executor runs.  The
\* event loop is started after the executor and handles the event in a goroutine of its own: one
\* that runs only when Stop has returned starts executeCommands, with its listener, once more,
\* with a context that is over and channels that are closed.
SystemStartEvent ==
  /\ ~xrunning /\ xctx = "cancelled" /\ dispatcher = "off"
  /\ dispatcher' = "run" /\ listener' = "run"
  /\ UNCHANGED <<qvars, xrunning, xctx, worker, xstopper, devices, connected, writes>>

\* HandleEvent(SystemStop): stopCommandProcessing cancels and waits for the dispatcher, but
\* neither the executor nor the queue stops running.
SystemStopEvent ==
  /\ xrunning /\ xctx = "live"
  /\ XCancel
  /\ UNCHANGED <<xrunning, dispatcher, listener, worker, xstopper, devices, connected, writes>>

\* The other events are logged (task complete, tick).
HandleEvent == SystemStartEvent \/ SystemStopEvent

XStopBegin ==
  /\ "Stop" \in ClientOps /\ xstopper = "idle" /\ xrunning
  /\ XCancel
  /\ xstopper' = "queue"
  /\ UNCHANGED <<xrunning, dispatcher, listener, worker, devices, connected, writes>>

\* ce.queue.Stop(), from its first statement to its return.
XStopQueue ==
  \/ /\ xstopper = "queue"
     /\ StopBegin \/ StopCancelCommands \/ StopClose
     /\ UNCHANGED xvars
  \/ /\ xstopper = "queue"
     /\ StopReturn
     /\ xstopper' = "devices"
     /\ UNCHANGED <<xrunning, xctx, dispatcher, listener, worker, devices, connected, writes>>

XStopDevices ==
  /\ xstopper = "devices"
  /\ connected' = connected \ devices
  /\ xstopper' = "wait"
  /\ UNCHANGED <<qvars, xrunning, xctx, dispatcher, listener, worker, devices, writes>>

\* wg covers the dispatcher, not the processCommand goroutines.
XStopReturn ==
  /\ xstopper = "wait" /\ dispatcher = "off"
  /\ xrunning' = FALSE /\ xstopper' = "idle"
  /\ UNCHANGED <<qvars, xctx, dispatcher, listener, worker, devices, connected, writes>>

-----------------------------------------------------------------------------
(* Devices *)

\* The device is connected first; when that fails nothing changes.
AddDevice(d) ==
  /\ d \notin devices
  /\ devices' = devices \cup {d} /\ connected' = connected \cup {d}
  /\ UNCHANGED <<qvars, xrunning, xctx, dispatcher, listener, worker, xstopper, writes>>

RemoveDevice(d) ==
  /\ d \in devices
  /\ devices' = devices \ {d} /\ connected' = connected \ {d}
  /\ UNCHANGED <<qvars, xrunning, xctx, dispatcher, listener, worker, xstopper, writes>>

-----------------------------------------------------------------------------
(* executeCommands, processCommand, handleCompletions *)

DispatcherReceive ==
  /\ dispatcher = "run"
  /\ ConsumerTakeCommand
  /\ worker' = IF sendChan # <<>> THEN [worker EXCEPT ![Head(sendChan)] = "start"] ELSE worker
  /\ UNCHANGED <<xrunning, xctx, dispatcher, listener, xstopper, devices, connected, writes>>

DispatcherExit ==
  /\ dispatcher = "run" /\ xctx = "cancelled"
  /\ dispatcher' = "off"
  /\ UNCHANGED <<qvars, xrunning, xctx, listener, worker, xstopper, devices, connected, writes>>

\* MarkCommandStarted fails unless the entry under the ID is Sent; then the command is dropped.
WorkerStart(o) ==
  /\ worker[o] = "start" /\ commandsLock = Free
  /\ \/ /\ ConsumerMarkStarted(idOf[o])
        /\ worker' = [worker EXCEPT ![o] = "device"]
     \/ /\ ~CanMarkStarted(idOf[o])
        /\ worker' = [worker EXCEPT ![o] = "done"]
        /\ UNCHANGED qvars
  /\ UNCHANGED <<xrunning, xctx, dispatcher, listener, xstopper, devices, connected, writes>>

\* Mutant: a command without a connected device counts as done.
WorkerDeviceSkips(o) ==
  /\ worker[o] = "device"
  /\ worker' = [worker EXCEPT ![o] =
       IF DeviceOf[idOf[o]] \in devices \cap connected THEN "write" ELSE "ok"]
  /\ UNCHANGED <<qvars, xrunning, xctx, dispatcher, listener, xstopper, devices, connected, writes>>

\* The device lookup and the Status().Connected check.
WorkerDevice(o) ==
  /\ worker[o] = "device"
  /\ worker' = [worker EXCEPT ![o] =
       IF DeviceOf[idOf[o]] \in devices \cap connected THEN "write" ELSE "fail"]
  /\ UNCHANGED <<qvars, xrunning, xctx, dispatcher, listener, xstopper, devices, connected, writes>>

\* device.Write: may fail for reasons of its own, and fails on a device that was disconnected.
WorkerWrite(o) ==
  /\ worker[o] = "write"
  /\ \/ /\ DeviceOf[idOf[o]] \in connected
        /\ worker' = [worker EXCEPT ![o] = "ok"]
        /\ writes' = [writes EXCEPT ![idOf[o]] = @ + 1]
     \/ /\ worker' = [worker EXCEPT ![o] = "fail"]
        /\ UNCHANGED writes
  /\ UNCHANGED <<qvars, xrunning, xctx, dispatcher, listener, xstopper, devices, connected>>

WorkerComplete(o) ==
  /\ worker[o] \in {"ok", "fail"}
  /\ ConsumerMarkCompleted(idOf[o], IF worker[o] = "ok" THEN "Completed" ELSE "Failed")
  /\ worker' = [worker EXCEPT ![o] = "done"]
  /\ UNCHANGED <<xrunning, xctx, dispatcher, listener, xstopper, devices, connected, writes>>

\* handleCommandCompletion only logs: a completion received here is not cleaned up.
ListenerReceive ==
  /\ listener = "run"
  /\ ConsumerTakeCompletion
  /\ UNCHANGED xvars

\* The range loop ends when the channel is closed and drained.
ListenerExit ==
  /\ listener = "run" /\ closed /\ completeChan = <<>>
  /\ listener' = "off"
  /\ UNCHANGED <<qvars, xrunning, xctx, dispatcher, worker, xstopper, devices, connected, writes>>

-----------------------------------------------------------------------------
XStopper == XStopBegin \/ XStopQueue \/ XStopDevices \/ XStopReturn
Dispatcher == DispatcherReceive \/ DispatcherExit
Worker(o) == WorkerStart(o) \/ WorkerDevice(o) \/ WorkerWrite(o) \/ WorkerComplete(o)
Listener == ListenerReceive \/ ListenerExit

QueueGoroutines ==
  /\ \/ \E c \in Clients : Client(c)
     \/ Sender
     \/ \E o \in Obj : Timer(o)
     \/ CleanerStep
  /\ UNCHANGED xvars

XNext ==
  /\ ~crashed
  /\ \/ XStart \/ HandleEvent \/ XStopper
     \/ \E d \in Devices : AddDevice(d) \/ RemoveDevice(d)
     \/ Dispatcher
     \/ Listener
     \/ \E o \in Obj : Worker(o)
     \/ QueueGoroutines

XSpec == XInit /\ [][XNext]_vars

\* Goroutines that can go on do go on, a call that was begun goes on while it is not blocked,
\* and deadlines pass.  Callers, events and devices owe nothing.  A mutex is taken finitely
\* often between two calls, so weak fairness is enough for those that wait for it.
Fairness ==
  /\ \A c \in Clients :
       WF_vars(~crashed /\ (PushRejected(c) \/ PushStore(c) \/ PushSend(c)) /\ UNCHANGED xvars)
  /\ \A o \in Obj : WF_vars(~crashed /\ Timer(o) /\ UNCHANGED xvars)
  /\ \A o \in Obj : WF_vars(~crashed /\ Worker(o))
  /\ WF_vars(~crashed /\ Sender /\ UNCHANGED xvars)
  /\ WF_vars(~crashed /\ CleanerStep /\ UNCHANGED xvars)
  /\ WF_vars(~crashed /\ Dispatcher)
  /\ WF_vars(~crashed /\ Listener)
  /\ WF_vars(~crashed /\ (XStopQueue \/ XStopDevices \/ XStopReturn))

FairSpec == XSpec /\ Fairness

-----------------------------------------------------------------------------
(* Properties *)

\* The number of times Push was called with an ID.
PushesOf(id) == Cardinality({o \in 1..pushed : idOf[o] = id})

\* A device write takes two pushes of its ID: processCommands and executeCommands compete for
\* sendChan, and the entry must have been marked Sent by the timer of a command the first one
\* received when MarkCommandStarted is called for a command the second one received.  So no
\* command is ever written twice for one Push, and one with an ID of its own is never written.
WriteTakesTwoPushes == \A id \in Ids : 2 * writes[id] <= PushesOf(id)

\* The commands with an ID that have been reported as Completed, stored or not.
Successes(id) == {o \in 1..pushed : idOf[o] = id /\ status[o] = "Completed"}

\* Every success that is reported has a device write of its own: neither a timeout nor a missing
\* or disconnected device, and no second report of one write, ever counts as success.  The write
\* is one of the same ID, not of the same Push: MarkCommandCompleted acts on the entry it finds
\* under the ID, so that the write of a command that was replaced settles its replacement.
CompletedWasWritten == \A id \in Ids : Cardinality(Successes(id)) <= writes[id]

\* A Push that found sendChan full waits for commandsLock, which it holds itself: from then on
\* nobody gets the lock (what PushReturns is about).
PushStuck == \E c \in Clients : pc[c] = "pushRelock"

\* A command that was marked Sent never hangs: it is executed or its timer fails it, it is
\* replaced or reclaimed, or the queue is being shut down.  Only a Push that waits for itself
\* with commandsLock keeps its timer from settling it.
SentCommandsSettle ==
  \A o \in Obj :
    (status[o] = "Sent" /\ commands[idOf[o]] = o)
      ~> (status[o] \in Terminal \/ commands[idOf[o]] # o \/ qctx = "cancelled" \/ crashed \/ PushStuck)

\* Stop returns (or the process dies): no goroutine it waits for keeps running or keeps a lock,
\* but for a Push that waits for itself with commandsLock, which Stop needs (queue.go, line 88).
StopReturns == xstopper # "idle" ~> (xstopper = "idle" \/ crashed \/ PushStuck)

\* "Timeout and cancellation for every command": every accepted command is settled in the end,
\* unless it is replaced or the queue is shut down.
AcceptedCommandsSettle ==
  \A o \in Obj :
    (status[o] = "Pending" /\ commands[idOf[o]] = o)
      ~> (status[o] \in Terminal \/ commands[idOf[o]] # o \/ qctx = "cancelled" \/ crashed)

\* "send channel full": a Push that finds the channel full returns with an error.
PushReturns == \A c \in Clients : pc[c] = "pushIndex" ~> (pc[c] = "idle" \/ crashed)

\* "Graceful shutdown": stopping the executor does not panic.
NoPanic == ~crashed
=============================================================================
