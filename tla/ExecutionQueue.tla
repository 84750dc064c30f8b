--------------------------- MODULE ExecutionQueue ---------------------------
(***************************************************************************)
(* The command execution queue, internal/core/queue.go: a map of commands    *)
(* with an index by task, a channel of commands to send, a channel of        *)
(* completions, two goroutines that drain the channels, one timer goroutine  *)
(* per command sent, and the callers of Push, RemoveByTaskID, Clear and Stop.*)
(*                                                                           *)
(* A critical section under commandsLock alone is one step.  The sections    *)
(* that take the second lock inside the first are split where they may wait. *)
(* The code that consumes the two channels from outside (the command         *)
(* executor) appears here as the most general consumer: it may receive from  *)
(* either channel and may call the Mark* methods with any ID at any time.    *)
(***************************************************************************)
EXTENDS Naturals, FiniteSets, SequencesExt

CONSTANTS
  Ids,          \* command IDs: non-empty sequences of the segments between '-'
  Clients,      \* goroutines that call the queue
  ClientOps,    \* which of Push, RemoveByTaskID, Clear and Stop are called
  MaxSize,      \* maxSize (config queue_size)
  SendCap,      \* capacity of sendChan (10 in the code)
  CompleteCap,  \* capacity of completeChan (10 in the code)
  MaxPush       \* bound: calls of Push in a behaviour

Free == "free"                  \* an unlocked mutex
Cleaner == "handleCompletions"  \* the lock owner that is not a client
Nil == 0                        \* no entry

ASSUME QueueAssumption ==
  /\ Ids # {}
  /\ ClientOps \subseteq {"Push", "RemoveByTaskID", "Clear", "Stop"}
  /\ MaxSize \in Nat /\ SendCap \in Nat /\ CompleteCap \in Nat /\ MaxPush \in Nat
  /\ Free \notin Clients /\ Cleaner \notin Clients

\* The prefix of the ID before its first '-'.
extractTaskID(id) == Head(id)
Groups == {extractTaskID(id) : id \in Ids}

\* The QueuedCommand objects: one per call of Push.
Obj == 1..MaxPush
Terminal == {"Completed", "Failed"}
Status == {"new", "Pending", "Sent", "Executing"} \cup Terminal

VARIABLES
  running,        \* eq.running
  qctx,           \* eq.ctx: "none" before Start, then "live" or "cancelled"
  commands,       \* eq.commands: ID -> object, Nil when absent
  taskCommands,   \* eq.taskCommands: task -> IDs, <<>> when absent
  commandsLock,   \* owner of commandsLock between two steps
  taskLock,       \* owner of taskLock between two steps
  sendChan,       \* buffered objects
  completeChan,   \* buffered objects
  closed,         \* Stop has closed both channels
  pushed,         \* objects allocated so far
  idOf,           \* object -> Command.ID
  status,         \* object -> Status
  ctx,            \* object -> its timeout context: "live", "cancelled" or "expired" while
                  \*           its timer goroutine runs, "none" before and after
  timer,          \* object -> its timer goroutine: "none", "mark", "wait", "done"
  pc,             \* client -> where it is
  arg,            \* client -> the object it is pushing, or Nil
  removeGroup,    \* the task RemoveByTaskID is removing (it holds taskLock)
  todo,           \* the IDs it has still to remove
  sender,         \* processCommands: "off", "run"
  cleaner,        \* handleCompletions: "off", "run", "lock", "index"
  cleaning,       \* the object handleCompletions has received, or Nil
  stopper,        \* Stop: "idle", "lock", "close", "wait"
  crashed         \* a panic has ended the process

mapVars == <<commands, taskCommands>>
lockVars == <<commandsLock, taskLock>>
chanVars == <<sendChan, completeChan, closed>>
objVars == <<pushed, idOf, status, ctx, timer>>
clientVars == <<pc, arg, removeGroup, todo>>
cleanerVars == <<cleaner, cleaning>>
lifeVars == <<running, qctx, sender, stopper, crashed>>
qvars == <<mapVars, lockVars, chanVars, objVars, clientVars, cleanerVars, lifeVars>>

\* Values of the variables that hold nothing yet.
AnyId == CHOOSE id \in Ids : TRUE
AnyGroup == CHOOSE g \in Groups : TRUE

TypeOK ==
  /\ running \in BOOLEAN /\ closed \in BOOLEAN /\ crashed \in BOOLEAN
  /\ qctx \in {"none", "live", "cancelled"}
  /\ commands \in [Ids -> Obj \cup {Nil}]
  /\ taskCommands \in [Groups -> Seq(Ids)]
  /\ commandsLock \in Clients \cup {Free, Cleaner}
  /\ taskLock \in Clients \cup {Free}
  /\ sendChan \in Seq(Obj) /\ completeChan \in Seq(Obj)
  /\ pushed \in 0..MaxPush
  /\ idOf \in [Obj -> Ids]
  /\ status \in [Obj -> Status]
  /\ ctx \in [Obj -> {"none", "live", "cancelled", "expired"}]
  /\ timer \in [Obj -> {"none", "mark", "wait", "done"}]
  /\ pc \in [Clients -> {"idle", "pushLock", "pushIndex", "pushRelock",
                         "remove", "clearIndex"}]
  /\ arg \in [Clients -> Obj \cup {Nil}]
  /\ removeGroup \in Groups
  /\ todo \in Seq(Ids)
  /\ sender \in {"off", "run"}
  /\ cleaner \in {"off", "run", "lock", "index"}
  /\ cleaning \in Obj \cup {Nil}
  /\ stopper \in {"idle", "lock", "close", "wait"}

Init ==
  /\ running = FALSE /\ closed = FALSE /\ crashed = FALSE
  /\ qctx = "none"
  /\ commands = [id \in Ids |-> Nil]
  /\ taskCommands = [g \in Groups |-> <<>>]
  /\ commandsLock = Free /\ taskLock = Free
  /\ sendChan = <<>> /\ completeChan = <<>>
  /\ pushed = 0
  /\ idOf = [o \in Obj |-> AnyId]
  /\ status = [o \in Obj |-> "new"]
  /\ ctx = [o \in Obj |-> "none"]
  /\ timer = [o \in Obj |-> "none"]
  /\ pc = [c \in Clients |-> "idle"]
  /\ arg = [c \in Clients |-> Nil]
  /\ removeGroup = AnyGroup /\ todo = <<>>
  /\ sender = "off" /\ cleaner = "off" /\ cleaning = Nil
  /\ stopper = "idle"

-----------------------------------------------------------------------------
(* Helpers *)

PresentIds == {id \in Ids : commands[id] # Nil}

\* The effect of a CancelFunc, or of a parent's, on the contexts in S.
Cancelled(S) == [o \in Obj |-> IF o \in S /\ ctx[o] = "live" THEN "cancelled" ELSE ctx[o]]

\* A panic: a send on a closed channel, or the nil a closed channel delivers.
Panic == crashed' = TRUE

-----------------------------------------------------------------------------
(* Life cycle *)

\* Bound: one Start per queue.  Nothing in the repository starts a stopped queue again (its
\* channels, made by NewExecutionQueue, stay closed).
Start ==
  /\ ~running /\ qctx = "none"
  /\ running' = TRUE /\ qctx' = "live" /\ sender' = "run" /\ cleaner' = "run"
  /\ UNCHANGED <<mapVars, lockVars, chanVars, objVars, clientVars, cleaning, stopper, crashed>>

\* eq.ctx is done: cancelled by Stop, or by the owner of the context it was derived from.
CancelContext ==
  /\ qctx' = "cancelled"
  /\ ctx' = Cancelled(Obj)

ParentCancel ==
  /\ qctx = "live"
  /\ CancelContext
  /\ UNCHANGED <<mapVars, lockVars, chanVars, pushed, idOf, status, timer, clientVars,
                 cleanerVars, running, sender, stopper, crashed>>

StopBegin ==
  /\ "Stop" \in ClientOps /\ stopper = "idle" /\ running
  /\ CancelContext
  /\ stopper' = "lock"
  /\ UNCHANGED <<mapVars, lockVars, chanVars, pushed, idOf, status, timer, clientVars,
                 cleanerVars, running, sender, crashed>>

StopCancelCommands ==
  /\ stopper = "lock" /\ commandsLock = Free
  /\ ctx' = Cancelled({commands[id] : id \in PresentIds})
  /\ stopper' = "close"
  /\ UNCHANGED <<mapVars, lockVars, chanVars, pushed, idOf, status, timer, clientVars,
                 cleanerVars, running, qctx, sender, crashed>>

StopClose ==
  /\ stopper = "close"
  /\ closed' = TRUE /\ stopper' = "wait"
  /\ UNCHANGED <<mapVars, lockVars, sendChan, completeChan, objVars, clientVars,
                 cleanerVars, running, qctx, sender, crashed>>

StopReturn ==
  /\ stopper = "wait" /\ sender = "off" /\ cleaner = "off"
  /\ running' = FALSE /\ stopper' = "idle"
  /\ UNCHANGED <<mapVars, lockVars, chanVars, objVars, clientVars, cleanerVars,
                 qctx, sender, crashed>>

-----------------------------------------------------------------------------
(* Callers *)

PushBegin(c, id) ==
  /\ "Push" \in ClientOps /\ pc[c] = "idle" /\ running
  /\ pushed < MaxPush
  /\ pushed' = pushed + 1
  /\ idOf' = [idOf EXCEPT ![pushed + 1] = id]
  /\ arg' = [arg EXCEPT ![c] = pushed + 1]
  /\ pc' = [pc EXCEPT ![c] = "pushLock"]
  /\ UNCHANGED <<mapVars, lockVars, chanVars, status, ctx, timer, removeGroup, todo,
                 cleanerVars, lifeVars>>

\* "execution queue is full"
PushRejected(c) ==
  /\ pc[c] = "pushLock" /\ commandsLock = Free
  /\ Cardinality(PresentIds) >= MaxSize
  /\ pc' = [pc EXCEPT ![c] = "idle"]
  /\ arg' = [arg EXCEPT ![c] = Nil]
  /\ UNCHANGED <<mapVars, lockVars, chanVars, objVars, removeGroup, todo, cleanerVars, lifeVars>>

\* Mutant: Push checks the size with <= instead of <.
PushStoreOneMore(c) ==
  /\ pc[c] = "pushLock" /\ commandsLock = Free
  /\ Cardinality(PresentIds) <= MaxSize
  /\ commandsLock' = c
  /\ commands' = [commands EXCEPT ![idOf[arg[c]]] = arg[c]]
  /\ status' = [status EXCEPT ![arg[c]] = "Pending"]
  /\ pc' = [pc EXCEPT ![c] = "pushIndex"]
  /\ UNCHANGED <<taskCommands, taskLock, chanVars, pushed, idOf, ctx, timer, arg, removeGroup,
                 todo, cleanerVars, lifeVars>>

\* Takes commandsLock and stores the command, over any entry with the same ID.
PushStore(c) ==
  /\ pc[c] = "pushLock" /\ commandsLock = Free
  /\ Cardinality(PresentIds) < MaxSize
  /\ commandsLock' = c
  /\ commands' = [commands EXCEPT ![idOf[arg[c]]] = arg[c]]
  /\ status' = [status EXCEPT ![arg[c]] = "Pending"]
  /\ pc' = [pc EXCEPT ![c] = "pushIndex"]
  /\ UNCHANGED <<taskCommands, taskLock, chanVars, pushed, idOf, ctx, timer, arg, removeGroup,
                 todo, cleanerVars, lifeVars>>

\* Indexes the command under its task and sends it, still holding commandsLock.  When the
\* channel is full the rollback locks commandsLock again: the client waits for itself
\* ("pushRelock"), no step of its own follows and nobody else can release the mutex.
PushSend(c) ==
  LET id == idOf[arg[c]]
      g  == extractTaskID(id)
  IN
  /\ pc[c] = "pushIndex" /\ taskLock = Free
  /\ taskCommands' = [taskCommands EXCEPT ![g] = Append(@, id)]
  /\ \/ /\ closed
        /\ Panic
        /\ UNCHANGED <<sendChan, commandsLock, pc, arg>>
     \/ /\ ~closed /\ Len(sendChan) < SendCap
        /\ sendChan' = Append(sendChan, arg[c])
        /\ commandsLock' = Free
        /\ pc' = [pc EXCEPT ![c] = "idle"]
        /\ arg' = [arg EXCEPT ![c] = Nil]
        /\ UNCHANGED crashed
     \/ /\ ~closed /\ Len(sendChan) >= SendCap
        /\ pc' = [pc EXCEPT ![c] = "pushRelock"]
        /\ UNCHANGED <<sendChan, commandsLock, arg, crashed>>
  /\ UNCHANGED <<commands, taskLock, completeChan, closed, objVars, removeGroup, todo,
                 cleanerVars, running, qctx, sender, stopper>>

\* RemoveByTaskID: taskLock for the whole call, commandsLock once per command.
RemoveBegin(c, g) ==
  /\ "RemoveByTaskID" \in ClientOps /\ pc[c] = "idle" /\ taskLock = Free
  /\ taskCommands[g] # <<>>
  /\ taskLock' = c
  /\ removeGroup' = g /\ todo' = taskCommands[g]
  /\ pc' = [pc EXCEPT ![c] = "remove"]
  /\ UNCHANGED <<mapVars, commandsLock, chanVars, objVars, arg, cleanerVars, lifeVars>>

\* Mutant: the entry is cancelled and stays in the map.
RemoveOneKeepsEntry(c) ==
  /\ pc[c] = "remove" /\ todo # <<>> /\ commandsLock = Free
  /\ ctx' = Cancelled({commands[Head(todo)]})
  /\ todo' = Tail(todo)
  /\ UNCHANGED <<commands, taskCommands, lockVars, chanVars, pushed, idOf, status, timer, pc, arg,
                 removeGroup, cleanerVars, lifeVars>>

RemoveOne(c) ==
  /\ pc[c] = "remove" /\ todo # <<>> /\ commandsLock = Free
  /\ ctx' = Cancelled({commands[Head(todo)]})
  /\ commands' = [commands EXCEPT ![Head(todo)] = Nil]
  /\ todo' = Tail(todo)
  /\ UNCHANGED <<taskCommands, lockVars, chanVars, pushed, idOf, status, timer, pc, arg,
                 removeGroup, cleanerVars, lifeVars>>

RemoveEnd(c) ==
  /\ pc[c] = "remove" /\ todo = <<>>
  /\ taskCommands' = [taskCommands EXCEPT ![removeGroup] = <<>>]
  /\ taskLock' = Free
  /\ removeGroup' = AnyGroup
  /\ pc' = [pc EXCEPT ![c] = "idle"]
  /\ UNCHANGED <<commands, commandsLock, chanVars, objVars, arg, todo, cleanerVars, lifeVars>>

ClearCommands(c) ==
  /\ "Clear" \in ClientOps /\ pc[c] = "idle" /\ running /\ commandsLock = Free
  /\ commandsLock' = c
  /\ ctx' = Cancelled({commands[id] : id \in PresentIds})
  /\ commands' = [id \in Ids |-> Nil]
  /\ pc' = [pc EXCEPT ![c] = "clearIndex"]
  /\ UNCHANGED <<taskCommands, taskLock, chanVars, pushed, idOf, status, timer, arg,
                 removeGroup, todo, cleanerVars, lifeVars>>

ClearIndex(c) ==
  /\ pc[c] = "clearIndex" /\ taskLock = Free
  /\ taskCommands' = [g \in Groups |-> <<>>]
  /\ commandsLock' = Free
  /\ pc' = [pc EXCEPT ![c] = "idle"]
  /\ UNCHANGED <<commands, taskLock, chanVars, objVars, arg, removeGroup, todo, cleanerVars, lifeVars>>

-----------------------------------------------------------------------------
(* The Mark* methods: each is one critical section.  They name the command   *)
(* by its ID and act on whatever entry the map holds under it.               *)

\* Mutant: MarkCommandSent without its "not in pending state" check.
CanMarkSentAnyStatus(id) == commands[id] # Nil

\* Mutant: MarkCommandStarted without its "not in sent state" check.
CanMarkStartedAnyStatus(id) == commands[id] # Nil

CanMarkSent(id) == commands[id] # Nil /\ status[commands[id]] = "Pending"
CanMarkStarted(id) == commands[id] # Nil /\ status[commands[id]] = "Sent"

MarkCommandSent(id) ==
  /\ commandsLock = Free
  /\ CanMarkSent(id)
  /\ status' = [status EXCEPT ![commands[id]] = "Sent"]

MarkCommandStarted(id) ==
  /\ commandsLock = Free
  /\ CanMarkStarted(id)
  /\ status' = [status EXCEPT ![commands[id]] = "Executing"]

\* Whatever the status was; the notice is dropped when completeChan is full.
MarkCommandCompleted(id, s) ==
  /\ commandsLock = Free
  /\ \/ /\ commands[id] = Nil
        /\ UNCHANGED <<status, completeChan, crashed>>
     \/ /\ commands[id] # Nil
        /\ status' = [status EXCEPT ![commands[id]] = s]
        /\ \/ closed /\ Panic /\ UNCHANGED completeChan
           \/ /\ ~closed
              /\ completeChan' = IF Len(completeChan) < CompleteCap
                                 THEN Append(completeChan, commands[id]) ELSE completeChan
              /\ UNCHANGED crashed

-----------------------------------------------------------------------------
(* processCommands and the timer goroutines *)

\* sendCommandToExecutor: a context with the command's timeout and a timer goroutine.
SenderReceive ==
  /\ sender = "run" /\ sendChan # <<>>
  /\ sendChan' = Tail(sendChan)
  /\ ctx' = [ctx EXCEPT ![Head(sendChan)] = qctx]
  /\ timer' = [timer EXCEPT ![Head(sendChan)] = "mark"]
  /\ UNCHANGED <<mapVars, lockVars, completeChan, closed, pushed, idOf, status, clientVars,
                 cleanerVars, lifeVars>>

SenderReceiveNil ==
  /\ sender = "run" /\ sendChan = <<>> /\ closed
  /\ Panic
  /\ UNCHANGED <<mapVars, lockVars, chanVars, objVars, clientVars, cleanerVars,
                 running, qctx, sender, stopper>>

SenderExit ==
  /\ sender = "run" /\ qctx = "cancelled"
  /\ sender' = "off"
  /\ UNCHANGED <<mapVars, lockVars, chanVars, objVars, clientVars, cleanerVars,
                 running, qctx, stopper, crashed>>

\* Mutant: the goroutine returns once the command is marked, without waiting for its context.
TimerMarkSentAndReturn(o) ==
  /\ timer[o] = "mark" /\ commandsLock = Free
  /\ \/ MarkCommandSent(idOf[o])
     \/ ~CanMarkSent(idOf[o]) /\ UNCHANGED status
  /\ timer' = [timer EXCEPT ![o] = "done"]
  /\ ctx' = [ctx EXCEPT ![o] = "none"]
  /\ UNCHANGED <<mapVars, lockVars, chanVars, pushed, idOf, clientVars, cleanerVars, lifeVars>>

\* The timer goroutine marks the command sent, or gives up (its deferred cancel runs).
TimerMarkSent(o) ==
  /\ timer[o] = "mark" /\ commandsLock = Free
  /\ \/ /\ MarkCommandSent(idOf[o])
        /\ timer' = [timer EXCEPT ![o] = "wait"]
        /\ UNCHANGED ctx
     \/ /\ ~CanMarkSent(idOf[o])
        /\ timer' = [timer EXCEPT ![o] = "done"]
        /\ ctx' = [ctx EXCEPT ![o] = "none"]
        /\ UNCHANGED status
  /\ UNCHANGED <<mapVars, lockVars, chanVars, pushed, idOf, clientVars, cleanerVars, lifeVars>>

\* The deadline of the command's context passes.
Deadline(o) ==
  /\ ctx[o] = "live"
  /\ ctx' = [ctx EXCEPT ![o] = "expired"]
  /\ UNCHANGED <<mapVars, lockVars, chanVars, pushed, idOf, status, timer, clientVars,
                 cleanerVars, lifeVars>>

TimerExpired(o) ==
  /\ timer[o] = "wait" /\ ctx[o] = "expired"
  /\ MarkCommandCompleted(idOf[o], "Failed")
  /\ timer' = [timer EXCEPT ![o] = "done"]
  /\ ctx' = [ctx EXCEPT ![o] = "none"]
  /\ UNCHANGED <<mapVars, lockVars, sendChan, closed, pushed, idOf, clientVars,
                 cleanerVars, running, qctx, sender, stopper>>

\* Mutant: a cancelled command gets a status the queue does not have.
TimerCancelledStatus(o) ==
  /\ timer[o] = "wait" /\ ctx[o] = "cancelled"
  /\ status' = [status EXCEPT ![o] = "Cancelled"]
  /\ timer' = [timer EXCEPT ![o] = "done"]
  /\ ctx' = [ctx EXCEPT ![o] = "none"]
  /\ UNCHANGED <<mapVars, lockVars, chanVars, pushed, idOf, clientVars, cleanerVars, lifeVars>>

TimerCancelled(o) ==
  /\ timer[o] = "wait" /\ ctx[o] = "cancelled"
  /\ timer' = [timer EXCEPT ![o] = "done"]
  /\ ctx' = [ctx EXCEPT ![o] = "none"]
  /\ UNCHANGED <<mapVars, lockVars, chanVars, pushed, idOf, status, clientVars,
                 cleanerVars, lifeVars>>

-----------------------------------------------------------------------------
(* handleCompletions *)

CleanerReceive ==
  /\ cleaner = "run" /\ completeChan # <<>>
  /\ completeChan' = Tail(completeChan)
  /\ cleaning' = Head(completeChan)
  /\ cleaner' = "lock"
  /\ UNCHANGED <<mapVars, lockVars, sendChan, closed, objVars, clientVars, lifeVars>>

CleanerReceiveNil ==
  /\ cleaner = "run" /\ completeChan = <<>> /\ closed
  /\ Panic
  /\ UNCHANGED <<mapVars, lockVars, chanVars, objVars, clientVars, cleanerVars,
                 running, qctx, sender, stopper>>

CleanerExit ==
  /\ cleaner = "run" /\ qctx = "cancelled"
  /\ cleaner' = "off"
  /\ UNCHANGED <<mapVars, lockVars, chanVars, objVars, clientVars, cleaning, lifeVars>>

\* Mutant: the clean-up trusts the notice and does not look at the stored status.
IsSettledUnchecked(id) == commands[id] # Nil

\* cleanupCompletedCommand looks the ID up again: only a settled entry is deleted.
IsSettled(id) == commands[id] # Nil /\ status[commands[id]] \in Terminal

CleanupEntry ==
  LET id == idOf[cleaning] IN
  /\ cleaner = "lock" /\ commandsLock = Free
  /\ \/ /\ IsSettled(id)
        /\ commandsLock' = Cleaner
        /\ commands' = [commands EXCEPT ![id] = Nil]
        /\ cleaner' = "index"
        /\ UNCHANGED cleaning
     \/ /\ ~IsSettled(id)
        /\ cleaner' = "run" /\ cleaning' = Nil
        /\ UNCHANGED <<commandsLock, commands>>
  /\ UNCHANGED <<taskCommands, taskLock, chanVars, objVars, clientVars, lifeVars>>

\* Mutant: the clean-up returns without unlocking commandsLock.
CleanupIndexKeepsLock ==
  /\ cleaner = "index" /\ taskLock = Free
  /\ taskCommands' = [taskCommands EXCEPT ![extractTaskID(idOf[cleaning])] = RemoveFirst(@, idOf[cleaning])]
  /\ cleaner' = "run" /\ cleaning' = Nil
  /\ UNCHANGED <<commands, lockVars, chanVars, objVars, clientVars, lifeVars>>

CleanupIndex ==
  LET id == idOf[cleaning] IN
  /\ cleaner = "index" /\ taskLock = Free
  /\ taskCommands' = [taskCommands EXCEPT ![extractTaskID(id)] = RemoveFirst(@, id)]
  /\ commandsLock' = Free
  /\ cleaner' = "run" /\ cleaning' = Nil
  /\ UNCHANGED <<commands, taskLock, chanVars, objVars, clientVars, lifeVars>>

-----------------------------------------------------------------------------
(* The consumer behind GetSendChannel and GetCompleteChannel *)

\* Receiving from sendChan; a closed channel delivers nil, which the consumer dereferences.
TakeCommand ==
  \/ /\ sendChan # <<>>
     /\ sendChan' = Tail(sendChan)
     /\ UNCHANGED crashed
  \/ /\ sendChan = <<>> /\ closed
     /\ Panic
     /\ UNCHANGED sendChan

ConsumerTakeCommand ==
  /\ TakeCommand
  /\ UNCHANGED <<mapVars, lockVars, completeChan, closed, objVars, clientVars, cleanerVars,
                 running, qctx, sender, stopper>>

ConsumerTakeCompletion ==
  /\ completeChan # <<>>
  /\ completeChan' = Tail(completeChan)
  /\ UNCHANGED <<mapVars, lockVars, sendChan, closed, objVars, clientVars, cleanerVars, lifeVars>>

ConsumerMarkStarted(id) ==
  /\ MarkCommandStarted(id)
  /\ UNCHANGED <<mapVars, lockVars, chanVars, pushed, idOf, ctx, timer, clientVars,
                 cleanerVars, lifeVars>>

ConsumerMarkCompleted(id, s) ==
  /\ MarkCommandCompleted(id, s)
  /\ UNCHANGED <<mapVars, lockVars, sendChan, closed, pushed, idOf, ctx, timer, clientVars,
                 cleanerVars, running, qctx, sender, stopper>>

-----------------------------------------------------------------------------
Client(c) ==
  \/ \E id \in Ids : PushBegin(c, id)
  \/ PushRejected(c) \/ PushStore(c) \/ PushSend(c)
  \/ \E g \in Groups : RemoveBegin(c, g)
  \/ RemoveOne(c) \/ RemoveEnd(c)
  \/ ClearCommands(c) \/ ClearIndex(c)

Stopper == StopBegin \/ StopCancelCommands \/ StopClose \/ StopReturn
Sender == SenderReceive \/ SenderReceiveNil \/ SenderExit
Timer(o) == TimerMarkSent(o) \/ Deadline(o) \/ TimerExpired(o) \/ TimerCancelled(o)
CleanerStep == CleanerReceive \/ CleanerReceiveNil \/ CleanerExit \/ CleanupEntry \/ CleanupIndex

\* The goroutines and callers of the queue itself.
QueueStep ==
  \/ Start \/ Stopper
  \/ \E c \in Clients : Client(c)
  \/ Sender
  \/ \E o \in Obj : Timer(o)
  \/ CleanerStep

\* The owner of the parent context and the consumer of the channels.
Consumer ==
  \/ ParentCancel
  \/ ConsumerTakeCommand \/ ConsumerTakeCompletion
  \/ \E id \in Ids : \/ ConsumerMarkStarted(id)
                     \/ \E s \in Terminal : ConsumerMarkCompleted(id, s)

Next == ~crashed /\ (QueueStep \/ Consumer)

Spec == Init /\ [][Next]_qvars

-----------------------------------------------------------------------------
(* Properties *)

\* The queue implements CommandTable: whatever the interleaving of pushes, timers, consumer
\* and clean-up, the entry stored under an ID only moves Pending -> Sent -> Executing, is
\* settled by a result or a timeout, and is accepted only while there is room (Push and the
\* status guards of MarkCommandSent and MarkCommandStarted).
Slot == [id \in Ids |-> IF commands[id] = Nil THEN "absent" ELSE status[commands[id]]]
Table == INSTANCE CommandTable WITH slot <- Slot
ImplementsCommandTable == Table!Spec

\* Push never stores a command beyond maxSize, whoever else stores or deletes meanwhile.
WithinCapacity == Table!WithinCapacity

\* A client between storing a command and indexing it.
Indexing(id) == \E c \in Clients : pc[c] = "pushIndex" /\ idOf[arg[c]] = id

\* Every stored command is listed under its task, so RemoveByTaskID reaches it: no clean-up
\* of a command with the same ID or task, and no removal that raced a Push, loses the listing.
IndexCoversCommands ==
  \A id \in PresentIds :
    Indexing(id) \/ \E i \in DOMAIN taskCommands[extractTaskID(id)] :
                       taskCommands[extractTaskID(id)][i] = id

\* A completion that arrives late, after its ID was pushed again, never deletes the new
\* command: an unsettled entry leaves the map only through RemoveByTaskID or Clear
\* (cleanupCompletedCommand looks the status up again under the lock).
NoLiveEntryReclaimed ==
  [][\A id \in Ids :
       commands[id] # Nil /\ commands'[id] = Nil /\ status[commands[id]] \notin Terminal
         => \E c \in Clients : RemoveOne(c) \/ ClearCommands(c)]_qvars
=============================================================================
