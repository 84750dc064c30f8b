# A verification project for the motion controller

TLA+ models of the controller under `src/`, the TLC runs that check them, and TLAPS proofs.
Every definition names the source lines it stands for in `PROJECT.json` ("map").

## 1. The system

A Go program that turns business commands (move, home, stop, self-check ...) into motion
commands for devices. Its parts, their state, and how they meet:

| part | state | operations | talks to |
|---|---|---|---|
| execution queue `core/queue.go` | map ID -> command, index task -> IDs, two channels, a context per command | Push, RemoveByTaskID, Clear, Mark*, Start, Stop; two goroutines and a timer goroutine per command | executor (channels, Mark*) |
| command executor `core/executor.go` | device table, context, running flag | Start, Stop, ExecuteCommand, AddDevice, RemoveDevice, HandleEvent; a dispatcher, a worker per command, a completion listener | queue, devices, event loop |
| task scheduler `core/scheduler.go` | four FIFO queues, active table, task channel | ScheduleTask, CancelTask, PauseTask, ResumeTask, Stop; a scheduling goroutine, a watcher per task | orchestration and application manager (task channel) |
| event loop `core/eventloop.go` | buffered event channel, modules, handler lists | RegisterModule, EmitEvent, Start, Stop; the loop, a goroutine per handler and event | every module (HandleEvent, Stop) |
| task trigger `core/trigger.go` | trigger table, task channel, running flag | AddTrigger ... DisableTrigger, a check every 10 ms, a check on a timer event, Start, Stop | managers (task channel), event loop |
| task decomposition `core/tasknode_decomposer.go`, `pkg/types/tasknode.go` | none: a function of the task and the configured axes | DecomposeTask | orchestration, application manager |
| application layer `application/` | handler tables | execute a business command, orchestrate a task, coordinate services | router, executor, scheduler, HAL |
| managers and life cycle `management/`, `cmd/control/main.go` | references, running flags | construct, start, stop, exit after 10 s | everything |
| configuration manager `config/manager.go` | configuration, lock, file, watchers, lastModified | LoadConfig, Reload, SetConfig, ImportConfig, Update*, StartWatching | managers |
| IPC `ipc/`, simulator `cmd/simulator` | clients, a send and a receive channel per end | connect, send, handle, respond, close, Stop | command router |
| command router `core/command_handler.go` | command -> handler | RegisterHandler, HandleCommand | IPC, business logic, configuration handler |
| HAL `hal/` | device, protocol and resource tables | Start, Stop, AddDevice, ExecuteCommand, AllocateForTask, ReleaseForTask | coordination layer, device objects |
| device objects `device/device.go` | connected flag, client, status record | Connect, Disconnect, Write, Read | HAL, executor |
| hardware manager `hardware/devices`, `hardware/factory.go` | device and configuration tables, scan ticker, event channel | AddDevice, RemoveDevice, Connect-, Disconnect-, Reconnect-, Read-, WriteDevice, StartAutoScan, Stop | protocol clients |
| protocol clients `hardware/protocols`, `hardware/comm` | handle, status | Connect, Disconnect, Reconnect, Read, Write with retries | the wire (external) |

What is hard here: almost every part owns goroutines that share maps, channels and contexts
with callers; channels are closed while others use them; commands and tasks are named by IDs
that are not always distinct; timeouts race results; two parts sometimes receive from one
channel. `PROJECT.json` lists these hazards with their lines.

What makes the parts correct:

* queue: bounded; an entry moves Pending, Sent, Executing, settled; a live command is never
  deleted by somebody else's completion; the task index covers the map; nobody blocks for ever;
* executor: a command is written to its device at most once per Push; every reported completion
  has a write of its own; a sent command settles; Stop returns and does not panic;
* scheduler: no task is lost, duplicated or overtaken; a cancelled task is not dispatched and
  stays cancelled; an active task is released; an emergency task is served; Stop returns;
* resources and devices: an allocated resource has somebody who releases it, and one owner;
  what a device reports is what happened to it;
* hardware manager: a read or write keeps its connection; Connected means connected; a removed
  device is closed; a failed one is tried again; no panic while it serves;
* IPC: a client's messages arrive in order and without gaps; the answer to a command tells
  whether its task was scheduled; Stop returns and leaves no connection open;
* configuration: never replaced by an older one of its file; what is saved in the file is loaded;
* program: no panic but during a shutdown, commands are told apart by their IDs, the shutdown
  waits for nobody for ever.

## 2. Modules

| module | models | role |
|---|---|---|
| `CommandTable` | what the queue promises: one slot per ID | abstract specification |
| `ExecutionQueue` | `core/queue.go` with the most general consumer | component |
| `CommandExecutor` | `core/executor.go` composed with `ExecutionQueue` | composition |
| `TaskScheduler` | `core/scheduler.go` | component |
| `ResourceManager` | `hal/resource_manager.go` | component |
| `DeviceObject` | `device/device.go` | component |
| `HAL` | `hal/hal.go`, its device and protocol managers, `application/service_coordination.go`, with the two above | composition |
| `Communication` | the clients of `hardware/protocols` over `hardware/comm/base.go`, as operators on a link | operators |
| `HardwareManager` | `hardware/devices/manager.go`, `hardware/factory.go` over `Communication` | composition |
| `BusinessCommands` | `core/command_handler.go`, `application/business_logic.go`, `management/config_handler.go` as operators | operators |
| `IPCClient` | `ipc/client.go` as `cmd/simulator` uses it | component |
| `IPCServer` | `ipc/server.go` with its clients and the business commands | composition |
| `ConfigManager` | `config/manager.go` and the file | component |
| `EventLoop` | `core/eventloop.go` | component |
| `TaskTrigger` | `core/trigger.go` | component |
| `TaskNodeDecomposer` | `core/tasknode_decomposer.go`, with the decomposition of a tree as the parameter `DecomposeTree` | operators |
| `TaskTree` | `core/tasknode_decomposer.go`, the decomposition of a tree: what TLC puts for `DecomposeTree` | operators (recursive; only for TLC) |
| `Control` | `cmd/control/main.go`, `management/`, `application/task_orchestration.go`, with `ConfigManager`, `EventLoop`, `TaskTrigger`, `TaskNodeDecomposer` and `BusinessCommands` | composition |
| `MC*` | constants for TLC, one per composed system | |
| `ExecutionQueueProofs`, `ExecutorProofs`, `SchedulerProofs`, `HALProofs`, `HardwareProofs`, `IPCProofs`, `ControlProofs` | theorems about the modules above | proofs |
| `SequenceLemmas` | what lists keep when they are appended to, shortened or joined; what a loop computes | lemmas |

### ExecutionQueue

The variables carry the names of the Go fields. A `QueuedCommand` is a number, given out by
`Push` in order, because the code passes pointers: after a second Push of an ID the map holds
the new object while channels and timers still hold the old one. A command ID is the sequence
of its segments between '-'; `extractTaskID` is its head, so that commands share a task as in
the code.

A critical section under `commandsLock` alone is one step. Push, Clear and the clean-up take
`taskLock` inside `commandsLock`, and RemoveByTaskID the other way round; these are split at
the point where they may wait, and `commandsLock`, `taskLock` name the owner in between. In
Push the index update and the channel send that follows are one step: `commandsLock` is held
throughout, and nothing but a removal that waits for that lock can come between them. The
self-lock of Push's rollback is the control point `pushRelock`, from which no step leads.

The code's data race on `running` is read as an ordinary variable: a stale value only makes
a call be rejected or accepted a moment later, which the interleavings contain.

`Consumer` is whoever holds the two channels: it receives from them and calls the Mark*
methods with any ID at any time. The executor is one such consumer.

A panic (send on a closed channel, nil received from one) sets `crashed` and ends the
behaviour. Timestamps, error texts and logging are left out.

### CommandExecutor

Adds the executor's context, dispatcher, listener, one worker per received command, Stop, the
SystemStart and SystemStop events, and the devices (in the table, connected). A SystemStart that
is handled late, after Stop has returned, starts a second dispatcher over closed channels.
`device.Write` is external: it may fail whenever it likes and cannot succeed on a disconnected
device. `writes` counts successful writes per ID and is read by properties only. It is per ID
because MarkCommandCompleted is: when an entry is replaced while its worker is at the device, the
worker's report settles the replacement, which was never written itself.

### TaskScheduler

Four sequences, the active table, the context and watcher of each task. Size and Pop are two
steps, and so are activation, creation of the context, and the send. `Deadline` is the passing
of a task's timeout. Two history variables (`withdrawn`, `ahead`) serve the properties.
CancelTask's four Remove calls are one step: with distinct task IDs at most one of them finds
the task. `GetTaskStatus`, `Status` and `processQueues` change nothing that is modelled: no
code leaves a Failed or Completed task in the active table for processQueues to delete.

### ResourceManager, DeviceObject, HAL

A requirement maps resource types to lists of IDs. Go visits the types of a map in any order,
so a loop is modelled by what is left of it (`todo`) and the type it is at (`cur`); a visit is
under `resourcesLock` and is one step, and other tasks step in between. The rollback visits
what the code visits: the IDs before the failed one in its type, and *all* IDs of the other
types, allocated or not. It may therefore release a resource of another task, and `Exclusive`
is stated of the resources that only one-type requirements name; `NoOrphan` holds of all.

A `Write` of a device is five steps (check, position, velocity, copy of the status, store),
each in a critical section of its own. The two wire writes are external and may fail. `Wire`
is what the conversion leaves of a target given in thousandths: the low byte of position and
velocity for the hardware wrapper, the low 16 bits of the position for modbus; the status keeps
the whole. `raced` records that the last Connect or Disconnect came in the middle of a Write: Write
then stores the Connected flag it had copied before, and the flag is wrong until the next one.

`ExecuteCommand` is that of the coordination layer: first the HAL's device is written, then, if
that succeeded, the same command goes to the command executor (`QueueCommand`), which may refuse
it; `queued` keeps the last target it was given.

HAL starts and stops its three managers in the code's order and nothing in it refuses calls
once it is stopped (`Serving`). `initializeDevice` creates no device: in the program the table
stays empty until somebody calls AddDevice, which is an action here.

### Communication, HardwareManager

A link is what a client keeps of a connection: protocol, status, whether the handle is set,
whether a close has failed, and whether a serial listener is inside its Read. Each operation of a
client is the set of links it can leave behind.

Connect, Disconnect and Reconnect hold the object's mutex and are one step; Read and Write hold
it for reading over all their attempts, so `MutexFree` makes the others wait. The serial client
has a second mutex, which `listenForData` holds over a Read that waits for a byte: Connect's
store of the port, Disconnect, and the client's own Read and Write wait for it. Whoever has to
wait takes a step of his own first (`Waits`, `RemoveLocks`, `StopLocks`): he is then `holder` of
the object's mutex, which keeps readers such as the scan's IsConnected out, and RemoveDevice and
Stop hold `dm.mu` too, which keeps everybody out. So one silent serial port can hold up the scan
of every device, as in the code. Every AddDevice
creates a new object, and callers, AutoConnect and the scan's goroutines keep the object they
looked up while RemoveDevice takes it out of the table. `selfLocked` is the state in which Stop
waits for the mutex it holds (StopAutoScan called under `dm.mu`).

### BusinessCommands, IPCClient, IPCServer

Both ends of a connection are modelled: a bounded channel, a goroutine that writes, one that
reads, and the order of closing on each side; `up` and `down` are the two directions on the
wire. A select takes any ready case and its default only when none is ready. The server's
handler starts a goroutine per business command; the routing table, the handlers' results and
the task they make are operators of `BusinessCommands`. The server accepts connections before
its handler is registered, before the router has the business logic's and then the configuration
handler's commands, and before the scheduler runs, and is stopped after it; `Phases` is that
order, and requests meet it in every state. The router's map has no lock: a request that reads it
while it is being filled may end the process (`JobRaces`). A command that makes a task goes through
ScheduleTask's check and its push in two steps, between which the scheduler may be stopped.

### ConfigManager, EventLoop, TaskTrigger, TaskNodeDecomposer, TaskTree, Control

A configuration is its version and the file it came from; a save of a file, well or badly formed,
makes the next version, and so does an update through the manager. There are two files:
LoadConfig and ImportConfig of another path redirect the manager to it (`Redirect`), before the
lock is taken and before anything can fail, so that a failed import leaves the watcher on the
other file; Reload evaluates the path a step earlier still. Under the lock LoadConfig is two
steps because the file may be saved in between. ImportConfig takes a copy with GetConfig and
saves it in another critical section. SetConfig and the in-place updates end in `hung`, with the
lock: they call what locks it again.

The trigger has one source, which appears, is enabled, disabled and removed. The event loop's
handlers are goroutines nobody waits for; the one that acts here is the trigger's check on a
timer event, which may send on the channel that Stop has closed.

`Control` puts these together in the order of `MotionControlSystem.Start` and `Stop`: modules
registered, parts started, `Stop` of the modules in the order of a map and then again by the
application manager, main's limit of 10 seconds. Parts with a module of their own are here only
running or not. `hardware.Factory.Start` always turns the automatic scan on, so
`DeviceManager.Stop` waits for itself, the graceful shutdown never returns and main always
leaves by its limit: Control has no step after `deviceManager`. A task goes from the trigger or
a client to the scheduler and to one of two receivers, the application manager's (which pushes
commands to the executor) or the orchestration's (whose commands end at the HAL's empty table).

A task is decomposed by `DecomposeTask`: by its tree if it has one, else by its type and axes, in
a loop over the axes. Sequence and Parallel nodes make the decomposition of a tree recursive, so
it is a parameter of the model, `DecomposeTree`: the runs give it the value `DecomposeNode` of
`TaskTree`, and the proofs hold whatever it is. `TreesFlatten`, an assumption TLC evaluates,
compares the recursive `DecomposeNode` with a definition without recursion on every tree of two
levels over four kinds of leaf.

## 3. Runs

| run | module, cfg | shows |
|---|---|---|
| `queue` | `MCExecutionQueue` | `TypeOK`, `IndexCoversCommands`, `WithinCapacity`, `ImplementsCommandTable`, `NoLiveEntryReclaimed` hold (679,141 states) |
| `executor` | `MCCommandExecutor` | `XTypeOK`, `WriteTakesTwoPushes`, `CompletedWasWritten`, `SentCommandsSettle`, `StopReturns` hold (164,776 states) |
| `scheduler` | `MCTaskScheduler` | `TypeOK`, `Conservation`, `WithdrawnIsNotDispatched`, `TrackedIsWatched`, `NoOvertaking`, `CancelledStays`, `ActiveIsReleased`, `StopReturns` hold |
| `hal` | `MCHAL` | `TypeOK`, `NoOrphan`, `Exclusive`, `StatusAgrees`, `ReportedWasSent` hold (1,403,369 states) |
| `hardware` | `MCHardwareManager` | `TypeOK`, `IOKeepsHandle`, `ConnectedHasHandle`, `RemovedIsClosed`, `PanicOnlyWhenStopping`, `FailedIsRetried` hold (319,861 states) |
| `ipc` | `MCIPCServer` | `TypeOK`, `NoGaps`, `AnswerTellsTheTask`, `StoppedIsClosed`, `StopEnds` hold (322,823 states) |
| `control` | `MCControl` | `TypeOK`, `PanicOnlyAfterClose`, `NamedIdsDistinct`, `ConfigNeverGoesBack`, `HotReload`, `ShutdownProgress` hold (233,385 states) |
| `push_returns` | `PushReturns.cfg` | violated: Push waits for itself when `sendChan` is full |
| `accepted_settle` | `AcceptedCommandsSettle.cfg` | violated: a command the executor receives first stays Pending |
| `no_panic` | `NoPanic.cfg` | violated: Stop closes channels that are in use |
| `emergency_served` | `EmergencyIsServed.cfg` | violated: the scheduling goroutine waits in Pop on an emptied queue |
| `home_reaches_axes` | `HomeReachesAxes.cfg` | violated: a home or stop command makes a task without axes, which yields no command |

The five violated properties state what the documents or the code itself say, quoted under
"findings" in `PROJECT.json`. Each property of a passing run has a mutant of the code's
definition that breaks it; the mutants stand next to the definitions they change.

`WriteTakesTwoPushes` deserves a word. Both `processCommands` and `executeCommands` receive
from `sendChan`. A command is started only if the entry under its ID is Sent, and only a
command received by `processCommands` is marked Sent. So one Push of an ID is received by one
of the two and never reaches a device; a write takes two pushes of one ID. The property is
the exact bound, and `accepted_settle` is its other face.

### What the properties leave out, and why

Several properties name an exception. Each is a behaviour of the code that TLC found, stated
as narrowly as it holds:

* `Exclusive`: a rollback of several types releases what it never allocated (see above), and
  Stop releases by force.
* `StatusAgrees`: the last Connect or Disconnect came in the middle of a Write. The property does
  not forbid the wrong flag, it confines it: nothing else makes one, and the next Connect or
  Disconnect that no Write overlaps repairs it.
* `ReportedWasSent`: compared as on the wire. From 0.256 on a position or velocity reaches the
  hardware wrapper's device as its low byte only, while the whole is reported; and the modbus
  device, which also reports the position field of a Stop or Home, is left out.
* `CompletedWasWritten`: counts by ID. The write of a command that was replaced settles, and is
  reported as the success of, its replacement.
* `SentCommandsSettle`, `StopReturns` (executor): a Push that found `sendChan` full waits for
  `commandsLock`, which it holds (`PushStuck`, the finding of `push_returns`); neither the timers
  nor Stop get the lock afterwards. `StopReturns` (scheduler) excludes likewise the goroutine stuck
  in Pop, the finding of `emergency_served`.
* `FailedIsRetried`: somebody waits, for ever, for a serial port that never receives a byte
  (`StuckOnSerial`); he may hold the device's mutex, with which the scan waits, or `dm.mu`.
* `AnswerTellsTheTask`: speaks of answers that are sent; the panic of a response to a client that
  is being closed, and that of the router's map, end the process.
* `NoGaps`: a message may be lost, in the client's select on its own channels, but nothing is
  written after it.
* `RemovedIsClosed`: somebody already held the removed device in order to connect it; and a
  handle whose later Connect failed is closed by nobody.
* `ConnectedHasHandle`: a serial port that failed to close is still reported Connected.
* `PanicOnlyWhenStopping`, `PanicOnlyAfterClose`: closed channels, and the ticker that
  StopAutoScan sets to nil under the scan's select.
* `HotReload`: a save between LoadConfig's read and its store is older than the time of day
  stored as lastModified and is never loaded; a caller of SetConfig that succeeds keeps the
  lock for ever; a LoadConfig or ImportConfig of another path, even one that fails, redirects the
  watcher to that file. `ConfigNeverGoesBack`: ImportConfig's save of a copy that is stale by then.
* `ShutdownProgress`: reaches the device manager, where the shutdown waits for itself; main's 10
  seconds, of which no fairness is assumed, may pass before.
* `NamedIdsDistinct`: commands of task trees have empty IDs, and tasks of the timer check have
  an empty name.

### Bounds

* `queue`: two callers (Push against RemoveByTaskID and Clear), two IDs of one task, two
  pushes, room for one command (so that Push is rejected) and channels of one slot. An ID is
  pushed again after its removal, while its first object is still in a channel or with a timer;
  the replacement of an entry that is present needs room for two and is in the `executor` run.
* `executor`: one caller, two pushes, room for two in the map and for one in `sendChan`, so that a
  Push finds it full and locks itself out; one device.
* `scheduler`: two tasks, of levels 0 and 2 (through the default case), a channel of one slot.
* `hal`: a task that wants two axes, a direct caller that wants the second, and a requirement of
  two types with a device that is not configured, so that checks race allocations and rollbacks
  happen; one device, one writer, and two targets, at rest and one whose position and velocity
  do not fit a byte (300 and 256 thousandths).
* `hardware`: two objects (`MaxObjects`), one caller, one retry, and five environments
  (`Environments`: protocols, IDs used, what is done besides adding and scanning). With one ID, the
  second object replaces a removed serial or modbus one that others still hold, under all calls,
  removals and failing additions; the same with Stop; and with two IDs a serial port that may stay
  silent stands next to a modbus device whose connection fails, with callers that disconnect or
  with removals.
* `ipc`: one client, an emergency stop and a query, channels of one place. A message that cannot be
  parsed is in the model and the proofs; it makes no task.
* `control`: two files, two versions of the configuration, two starts, channels and event buffer
  of one place, two tasks of two shapes (a move of both axes; a tree that fails), the request
  "home", one tick in flight. `scene` is a bound too: a behaviour has edits of the file and
  callers of the configuration manager, or triggers and requests; the two share only the life
  cycle.

`MaxPush` and "each task is scheduled once" bound histories; "one Start" of queue, executor and
scheduler is the code's own limit, since closed channels are never made again. Runs set
CHECK_DEADLOCK FALSE: a controller that was stopped, or has crashed, takes no step.

Symmetry: the two callers of the queue run are interchangeable and no property names one.

### Fairness

Weak fairness for each goroutine, for calls that were begun and for deadlines: Go runs a
goroutine that can go on, a select with a ready case proceeds, and a timeout context expires.
Callers, events and devices are under no obligation. Go's mutexes hand over to a waiter after a
millisecond, and the number of calls is bounded here, so weak fairness suffices for those who
wait for one.

* `hardware`: the scan, its reconnects, AutoConnect, callers inside a call, RemoveDevice and Stop.
  The scan's IsConnected has strong fairness: an RWMutex lets at most one writer pass before a
  waiting reader. Attempts of the modbus and custom clients end, by their timeouts. Of the serial
  client's Read, and of its listener's, which hold its mutex, nothing is assumed: they may wait for
  a byte for ever.
* `ipc`: the acceptor, handlers, senders and Stop. A handler blocked in Decode is released by
  its 30 s read deadline.
* `control`: the goroutines inside the configuration manager, the one that runs Stop, the event
  loop's and the trigger's. Nothing is assumed of main's 10 s limit (`Exit`).

## 4. Proofs

A run checks one small instance; a theorem holds for every value of the constants that satisfies
the named assumptions. Every safety property that a passing run checks, invariant or action
property, is proved, in each case from an inductive invariant that TLC checked on the run's
instance first.

| part | theorems (property) | invariant |
|---|---|---|
| queue | `QueueTypeCorrect` (`TypeOK`), `QueueImplementsTable` (`ImplementsCommandTable`), `QueueCapacity` (`WithinCapacity`, by `TableCapacity`), `LiveEntriesKept` (`NoLiveEntryReclaimed`), `IndexCovered` (`IndexCoversCommands`) | `QInv`, `IndexInv` |
| executor | `ExecutorUsesQueue`, `ExecutorTypeCorrect` (`XTypeOK`), `WritesAreBounded` (`WriteTakesTwoPushes`), `CompletionIsTrue` (`CompletedWasWritten`) | `XInv` |
| scheduler | `SchedulerTypeCorrect` (`TypeOK`), `NoTaskLost` (`Conservation`), `CancellationIsFinal` (`WithdrawnIsNotDispatched`), `EntriesAreWatched` (`TrackedIsWatched`), `PriorityIsKept` (`NoOvertaking`), `CancellationStays` (`CancelledStays`) | `SInv` |
| HAL | `HALTypeCorrect` (`TypeOK`), `NothingOrphaned` (`NoOrphan`), `OneHolder` (`Exclusive`), `StatusIsTrue` (`StatusAgrees`), `PositionIsTrue` (`ReportedWasSent`) | `RInv`, `DInv` |
| hardware | `HardwareTypeCorrect` (`TypeOK`), `HandleStays` (`IOKeepsHandle`), `ConnectedIsOpen` (`ConnectedHasHandle`), `RemovalCloses` (`RemovedIsClosed`), `PanicNeedsStop` (`PanicOnlyWhenStopping`) | `HardwareInv` |
| IPC | `IPCTypeCorrect` (`TypeOK`), `WrittenHasNoGaps` (`NoGaps`), `StopClosesAll` (`StoppedIsClosed`), `AnswersAreTrue` (`AnswerTellsTheTask`) | `IInv` |
| control | `ControlTypeCorrect` (`TypeOK`), `PanicNeedsShutdown` (`PanicOnlyAfterClose`), `IdsTellCommandsApart` (`NamedIdsDistinct`), `ConfigurationAdvances` (`ConfigNeverGoesBack`) | `IInv` |

### Assumptions

* `QueueAssumption`: IDs exist; capacities and bounds are natural numbers; callers are not the
  two lock markers. `ExecutorAssumption`: a command names a device.
* `SchedulerAssumption`: a task has an ID and a natural number as priority (any other number ends
  in the default case), the channel's capacity is a natural number. IDs may be shared. Only
  `CancellationStays` has the hypothesis that they are not: with a shared ID the watcher of a
  cancelled task that has expired finds the other task in the table and marks its own as failed.
* `ResourceAssumption`: a requirement names a resource at most once, and a direct caller of
  AllocateResource one resource of one type. `DeviceAssumption`, `ProtocolAssumption`: positions
  and velocities are natural numbers of thousandths, a device has one of the known protocols.
* `HardwareAssumption`: the bounds are natural numbers, the devices added have protocols, callers
  are not the markers of the other holders of a mutex.
* `IPCAssumption`: a client sends messages, buffers are natural numbers. `IdsUnique`: no two
  messages have one ID; the simulator makes them from the clock in nanoseconds
  (`cmd/simulator/main.go:166`), and the answer to a message is told by its ID alone.
* `AxesAssumption`: there is an axis, and each has the name of a device. `ShapeAssumption`: what a
  source returns has the Go type of a task, and the decomposition of its tree has the type of
  `decomposeTaskNode`, a list of commands or an error; nothing is assumed of their number, names
  or devices. `MaxVersionAssumption`, `TriggerAssumption`, `EventLoopAssumption`,
  `ControlAssumption`: bounds and capacities are natural numbers (those of channels not 0), and
  clients send business commands.

### Queue

`QInv == TypeOK /\ ArgInv /\ CleaningInv /\ EntryInv`. TypeOK alone is not inductive: Push stores
`arg[c]` under `idOf[arg[c]]`, which is meaningful only for an allocated object (ArgInv), and the
clean-up likewise (CleaningInv). EntryInv, that the entry under an ID is an object with that ID,
carries the refinement: the Mark* methods write the status of the object they find, and no other
slot changes because no other ID maps to it. Preservation is one step per action; the simulation
has one step per action that writes the map or a status, and one per group of the others. The
capacity is proved of the abstract table (`TableCapacity`: adding one element to a finite set
that is not full) and transferred by the refinement. `SequenceLemmas` shows that the loop that
removes an ID from a list yields a list, from the well-foundedness of the numbers.

`IndexCovered` needs a second invariant, `IndexInv`, on top of `QInv`. IndexCoversCommands says
nothing of who may stand between the map and the index, so it adds the lock discipline
(`CommandsLockInv`, `TaskLockInv`: the two mutexes are held, between steps, exactly at the
control points that wait inside a critical section; so at most one caller is indexing), that
Clear and the clean-up have deleted their entries before they come to the index (`ClearedInv`),
that completions name allocated objects, whose IDs no longer change (`CompletionInv`), and that
whatever is left of the task under removal is still in the remover's list or is just being pushed
(`RemovalInv`), which is what makes it safe to drop the task's whole list at the end.

### Executor

`ExecutorUsesQueue` shows that the composition implements the queue's own `Spec`: the executor is
one instance of the most general consumer, so the queue's theorems hold in the program. On `QInv`
the executor adds `RouteInv` (a command goes from Push into `sendChan` and from there to a timer
or to a worker, never both), `CountInv` (per ID, the writes made, the workers between start and
write, and the one start that a Sent entry still allows are together no more than the objects
that timers received; and the writes are no more than the workers past their write) and
`WrittenInv` (per ID, the successes reported and the workers that are about to report one are
together no more than the writes). Counting is necessary: a report settles whatever object the ID
names by then, so no statement about the object itself holds. The factor two of
`WriteTakesTwoPushes` comes out of RouteInv and CountInv: a write uses up an object that a timer
received and another one that a worker received. The counts are cardinalities of sets of objects;
each action moves at most one object between them.

### Scheduler

`SInv` describes where a task can be. `PlaceInv` (hand, queue, channel and receiver exclude each
other) and `QueueInv` (each queue lists a task once, at its own level) give Conservation, which
counts occurrences; `StatusInv` ties the status to the place; `HandInv` says when the goroutine
has a task in hand; `WatchInv` and `ActiveInv` make the watchers' releases safe; `ScanInv` says
what the scan has left behind and is exactly what NoOvertaking needs at a Pop that happens after
CancelTask changed a queue the scan has already seen.

### HAL

`RInv` and `DInv` are independent, because resources and device objects share no variable.
NoOrphan and Exclusive are inductive only together with `LoopInv` (what a loop over a requirement
still has to visit names a resource once and, during allocation, is the end of the requirement:
so a rollback knows which part was allocated), `StartInv` and `DirectInv`. For the devices,
`TargetInv`, `CopyInv` and `SentInv` speak of what a Write carries between its reading of the
status and its storing it, and its caller until the command is handed on: the reported status is
stored by a Write that read it several steps earlier. Nothing is used of the wire's form of a
target but that equal targets have equal forms, so the truncation is in the theorem as it stands.

### Hardware manager

`HardwareInv == HInv /\ WaitInv`. `WaitInv` types who waits for whom and says that a RemoveDevice
that waits with `dm.mu` still has its device in the table; it is kept by every step by itself,
and the steps that only wait, or that the listener takes, keep `HInv` (`WaitKeepsHInv`,
`ListenerKeepsHInv`). In `HInv`: `LinksGood` (the shapes of a link that the clients' operators
leave, with the serial port that failed to close as the only Connected one without a handle),
`NumberInv` (objects are created in order), `TableInv` (the table and the reconnects know an
object by its own ID), `AttemptInv` (a read or write keeps its handle), `OrphanInv` (who may
still connect a removed object) and `ScanInv` (the ticker). The client operators of
`Communication` have one lemma each.

### IPC

`IInv == TInv /\ ChainInv /\ CloseInv /\ AnswerInv`. `ChainInv` (`Unbroken`): as long as the
client is connected and its sender runs, what was written and what is buffered make up, joined,
what Send accepted; afterwards what was written is still a beginning of it. `CloseInv`: after
StopCancels an open connection belongs to a handler or to the acceptor, who will close it.
`AnswerInv`: each message of a client's script is in one place (`OnceInv`); one that was not
routed has neither an answer nor a task, at most one goroutine works on a message until it has
the answer, and its task is there exactly between the push and the answer (`UnansweredInv`); and
the tasks of a request that was answered, wherever the answer is, are the one that belongs to its
command, or none (`TruthInv`). `SendStep` and `ReceiveStep` describe the actions' effect on one
client, `WorkStep` that of the goroutine of a command, and `TasksFit` compares the task of a
command with what the property asks of it.

### Control

`IInv` joins four groups that share only the life cycle, and each is kept by a lemma of its own
(`ConfigKept`, `LoopKept`, `LifeKept`, `TaskKept`).

* `ConfigInv`: whoever is between reading a file and storing what was read, or waits for itself,
  holds the lock; what was read is not newer than its file, nor older than the memory if that
  came from the same file; while the lock is free no file is behind what came from it. Nothing is
  said of the path, which anybody may change at any time. `BootInv`: until StartWatching nobody
  is inside the manager, which is why the load at start-up, made without looking at the lock,
  cannot come between.
* `ShutdownInv`: a closed channel means that the shutdown has reached the modules, and a trigger
  that is closed and still running is at one of two places, inside EventLoop.Stop, which waits for
  its goroutine, or past ApplicationManager.Stop. So the second Stop finds it stopped, or open.
* `TaskInv`: the channel holds tasks that wait in it, each once, and the executor's queue commands
  of tasks that were processed, named after them. A task that is scheduled or processed is
  therefore not one whose commands are pushed already, and two commands with one name would have
  one task and one place in its list.

`PerAxisType` is the one place where a loop is reasoned about for any length: `LoopExists` shows
that the recursive function of the loop exists, and a least index at which its value were not a
list of commands leads to a contradiction; both use only that a set of numbers has a least one.

### Only model-checked

* The liveness properties, which are out of the prover's reach: `SentCommandsSettle`, the two
  `StopReturns`, `ActiveIsReleased`, `FailedIsRetried`, `StopEnds`, `HotReload`,
  `ShutdownProgress`.
* What `TaskTree` makes of a tree (`TreesFlatten`): a statement about every tree needs induction
  over data, and a module with a recursive operator is closed to the prover.

## 5. Plan

Every part that carries the program's logic is modelled, and its safety properties are proved.
What is left:

1. the composition of IPC server and scheduler, where an answer "scheduled" meets `Conservation`;
2. the composition of Control's receivers with `CommandExecutor`, where `NamedIdsDistinct` meets
   the queue's slots per ID.

## 6. Not modelled

* `core/decomposer.go` (the older TaskDecomposer with its floating-point planner),
  `CreateTaskNodeFromConfig`, the `Execute` methods of task nodes, `UnregisterModule`,
  `UnregisterHandler`, `Broadcast`: nothing in the program calls them.
* Frames, checksums, byte orders and discovery of the protocols, and what becomes of unsolicited
  data: the wire is external, and no property here tells frames apart. (The serial listener is
  modelled for the mutex it holds.)
* What the device does with a truncated position; negative and fractional thousandths.
* `ExportConfig` (writes a file nothing reads back) and the getters of the configuration.
* Logging and the build script: output only.

Components of `PROJECT.json` marked `partly` or `not_modelled` say which of these applies.
