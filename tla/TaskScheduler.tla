---------------------------- MODULE TaskScheduler ----------------------------
(***************************************************************************)
(* The task scheduler, internal/core/scheduler.go: four priority queues, the *)
(* scheduling goroutine that drains them, the table of active tasks, one     *)
(* watcher goroutine per dispatched task, and the callers of ScheduleTask,   *)
(* CancelTask, PauseTask, ResumeTask and Stop.                               *)
(*                                                                           *)
(* Each queue has its own mutex and the active table has activeLock; a       *)
(* critical section is one step.  The scheduling goroutine asks a queue for  *)
(* its size and pops from it in two sections, and builds a task's context    *)
(* outside activeLock: those are separate steps.                             *)
(***************************************************************************)
EXTENDS Naturals, FiniteSets, SequencesExt

CONSTANTS
  Tasks,       \* task objects; each is scheduled at most once (bound)
  TaskIds,     \* Task.ID values
  IdOf,        \* Task.ID of a task: two tasks may share one
  PriorityOf,  \* Task.Priority: 0 emergency, 1 high, 2 medium, 3 low, others are queued as medium
  ChanCap      \* capacity of taskChan (100 in the code)

NoTask == "noTask"
Levels == 0..3

ASSUME SchedulerAssumption ==
  /\ IdOf \in [Tasks -> TaskIds]
  /\ PriorityOf \in [Tasks -> Nat]
  /\ ChanCap \in Nat
  /\ NoTask \notin Tasks

VARIABLES
  running,      \* ts.running
  sctx,         \* ts.ctx: "none", "live", "cancelled"
  queues,       \* level -> the tasks of its TaskQueue
  activeTasks,  \* ID -> task, or NoTask
  taskChan,     \* buffered tasks
  closed,       \* Stop has closed taskChan
  status,       \* task -> Task.Status ("new" before ScheduleTask)
  ctx,          \* task -> the context behind CancelFunc: "none", "live", "cancelled", "expired"
  watcher,      \* task -> its watcher goroutine: "none", "wait", "done"
  loop,         \* the scheduling goroutine
  level,        \* the queue it is looking at
  current,      \* the task it has popped, or NoTask
  stopper,      \* Stop: "idle", "close", "wait"
  crashed,      \* a panic has ended the process
  delivered,    \* history: the tasks received from taskChan
  withdrawn,    \* history: the tasks CancelTask took out of a queue
  ahead         \* history: the tasks that were queued when the current scan began

queueVars == <<queues, withdrawn>>
tableVars == <<activeTasks, status, ctx, watcher>>
chanVars == <<taskChan, closed, delivered>>
loopVars == <<loop, level, current, ahead>>
lifeVars == <<running, sctx, stopper, crashed>>
vars == <<queueVars, tableVars, chanVars, loopVars, lifeVars>>

TypeOK ==
  /\ running \in BOOLEAN /\ closed \in BOOLEAN /\ crashed \in BOOLEAN
  /\ sctx \in {"none", "live", "cancelled"}
  /\ queues \in [Levels -> Seq(Tasks)]
  /\ activeTasks \in [TaskIds -> Tasks \cup {NoTask}]
  /\ taskChan \in Seq(Tasks)
  /\ status \in [Tasks -> {"new", "Pending", "Running", "Paused", "Failed", "Cancelled"}]
  /\ ctx \in [Tasks -> {"none", "live", "cancelled", "expired"}]
  /\ watcher \in [Tasks -> {"none", "wait", "done"}]
  /\ loop \in {"off", "top", "scan", "pop", "activate", "context", "send", "reject"}
  /\ level \in Levels
  /\ current \in Tasks \cup {NoTask}
  /\ stopper \in {"idle", "close", "wait"}
  /\ delivered \subseteq Tasks /\ withdrawn \subseteq Tasks /\ ahead \subseteq Tasks

Init ==
  /\ running = FALSE /\ closed = FALSE /\ crashed = FALSE
  /\ sctx = "none"
  /\ queues = [l \in Levels |-> <<>>]
  /\ activeTasks = [id \in TaskIds |-> NoTask]
  /\ taskChan = <<>>
  /\ status = [t \in Tasks |-> "new"]
  /\ ctx = [t \in Tasks |-> "none"]
  /\ watcher = [t \in Tasks |-> "none"]
  /\ loop = "off" /\ level = 0 /\ current = NoTask
  /\ stopper = "idle"
  /\ delivered = {} /\ withdrawn = {} /\ ahead = {}

-----------------------------------------------------------------------------
(* Helpers *)

\* Mutant: the switch of ScheduleTask without its default case.
LevelOfKnown(t) == PriorityOf[t]

\* The queue ScheduleTask chooses.
LevelOf(t) == IF PriorityOf[t] \in Levels THEN PriorityOf[t] ELSE 2

QueuedAt(l) == Range(queues[l])
Queued == UNION {QueuedAt(l) : l \in Levels}

\* A CancelFunc, or the scheduler's own cancel, on the contexts of the tasks in S.
Cancelled(S) == [t \in Tasks |-> IF t \in S /\ ctx[t] = "live" THEN "cancelled" ELSE ctx[t]]

-----------------------------------------------------------------------------
(* Life cycle *)

\* Bound: one Start; nothing in the repository starts a stopped scheduler again.
Start ==
  /\ ~running /\ sctx = "none"
  /\ running' = TRUE /\ sctx' = "live" /\ loop' = "top"
  /\ UNCHANGED <<queueVars, tableVars, chanVars, level, current, ahead, stopper, crashed>>

StopBegin ==
  /\ stopper = "idle" /\ running
  /\ sctx' = "cancelled"
  /\ ctx' = Cancelled(Tasks)
  /\ stopper' = "close"
  /\ UNCHANGED <<queueVars, activeTasks, status, watcher, chanVars, loopVars, running, crashed>>

StopClose ==
  /\ stopper = "close"
  /\ closed' = TRUE
  /\ stopper' = "wait"
  /\ UNCHANGED <<queueVars, tableVars, taskChan, delivered, loopVars, running, sctx, crashed>>

StopReturn ==
  /\ stopper = "wait" /\ loop = "off"
  /\ running' = FALSE /\ stopper' = "idle"
  /\ UNCHANGED <<queueVars, tableVars, chanVars, loopVars, sctx, crashed>>

-----------------------------------------------------------------------------
(* Callers *)

ScheduleTask(t) ==
  /\ running /\ status[t] = "new"
  /\ status' = [status EXCEPT ![t] = "Pending"]
  /\ queues' = [queues EXCEPT ![LevelOf(t)] = Append(@, t)]
  /\ UNCHANGED <<withdrawn, activeTasks, ctx, watcher, chanVars, loopVars, lifeVars>>

\* An active task is cancelled through its CancelFunc, if that is set already.
CancelActive(id) ==
  LET t == activeTasks[id] IN
  /\ t # NoTask
  /\ ctx' = Cancelled({t})
  /\ status' = [status EXCEPT ![t] = "Cancelled"]
  /\ activeTasks' = [activeTasks EXCEPT ![id] = NoTask]
  /\ UNCHANGED <<queueVars, watcher, chanVars, loopVars, lifeVars>>

HasId(id) == {t \in Tasks : IdOf[t] = id}

\* Mutant: Remove reports success without taking the task out.
CancelQueuedKeeps(id) ==
  /\ activeTasks[id] = NoTask
  /\ Queued \cap HasId(id) # {}
  /\ withdrawn' = withdrawn \cup HasId(id)
  /\ UNCHANGED <<queues, tableVars, chanVars, loopVars, lifeVars>>

\* A queued one is taken out of the first queue that holds its ID; its status is left alone.
CancelQueued(id) ==
  /\ activeTasks[id] = NoTask
  /\ \E l \in Levels :
       /\ QueuedAt(l) \cap HasId(id) # {}
       /\ \A k \in 0..(l - 1) : QueuedAt(k) \cap HasId(id) = {}
       /\ LET i == SelectInSeq(queues[l], LAMBDA t : IdOf[t] = id) IN
            /\ queues' = [queues EXCEPT ![l] = RemoveAt(@, i)]
            /\ withdrawn' = withdrawn \cup {queues[l][i]}
  /\ UNCHANGED <<tableVars, chanVars, loopVars, lifeVars>>

PauseTask(id) ==
  /\ activeTasks[id] # NoTask
  /\ status' = [status EXCEPT ![activeTasks[id]] = "Paused"]
  /\ UNCHANGED <<queueVars, activeTasks, ctx, watcher, chanVars, loopVars, lifeVars>>

ResumeTask(id) ==
  /\ activeTasks[id] # NoTask
  /\ status' = [status EXCEPT ![activeTasks[id]] = "Running"]
  /\ UNCHANGED <<queueVars, activeTasks, ctx, watcher, chanVars, loopVars, lifeVars>>

\* A receiver of the task channel (task orchestration, application manager).
Receive ==
  /\ taskChan # <<>>
  /\ taskChan' = Tail(taskChan)
  /\ delivered' = delivered \cup {Head(taskChan)}
  /\ UNCHANGED <<queueVars, tableVars, closed, loopVars, lifeVars>>

-----------------------------------------------------------------------------
(* schedule, getNextTask, executeTask *)

\* Mutant: the goroutine leaves only when nothing is queued.
LoopExitDrained ==
  /\ loop = "top" /\ sctx = "cancelled" /\ Queued = {}
  /\ loop' = "off"
  /\ UNCHANGED <<queueVars, tableVars, chanVars, level, current, ahead, lifeVars>>

LoopExit ==
  /\ loop = "top" /\ sctx = "cancelled"
  /\ loop' = "off"
  /\ UNCHANGED <<queueVars, tableVars, chanVars, level, current, ahead, lifeVars>>

\* Mutant: the scan starts at the high-priority queue.
ScanBeginHigh ==
  /\ loop = "top" /\ sctx = "live"
  /\ loop' = "scan" /\ level' = 1
  /\ ahead' = Queued
  /\ UNCHANGED <<queueVars, tableVars, chanVars, current, lifeVars>>

ScanBegin ==
  /\ loop = "top" /\ sctx = "live"
  /\ loop' = "scan" /\ level' = 0
  /\ ahead' = Queued
  /\ UNCHANGED <<queueVars, tableVars, chanVars, current, lifeVars>>

\* Mutant: the scan runs past the last queue.
ScanEmptyOffByOne ==
  /\ loop = "scan" /\ queues[level] = <<>>
  /\ level' = level + 1
  /\ UNCHANGED <<queueVars, tableVars, chanVars, loop, current, ahead, lifeVars>>

\* Size() = 0: on to the next queue, or to sleep after the last one.
ScanEmpty ==
  /\ loop = "scan" /\ queues[level] = <<>>
  /\ IF level = 3 THEN loop' = "top" /\ level' = 0 /\ ahead' = {}
                  ELSE level' = level + 1 /\ UNCHANGED <<loop, ahead>>
  /\ UNCHANGED <<queueVars, tableVars, chanVars, current, lifeVars>>

\* Size() > 0: the goroutine is committed to Pop on this queue.
ScanFound ==
  /\ loop = "scan" /\ queues[level] # <<>>
  /\ loop' = "pop"
  /\ UNCHANGED <<queueVars, tableVars, chanVars, level, current, ahead, lifeVars>>

\* Pop waits on the queue's condition while the queue is empty.
Pop ==
  /\ loop = "pop" /\ queues[level] # <<>>
  /\ current' = Head(queues[level])
  /\ queues' = [queues EXCEPT ![level] = Tail(@)]
  /\ loop' = "activate"
  /\ UNCHANGED <<withdrawn, tableVars, chanVars, level, ahead, lifeVars>>

Activate ==
  /\ loop = "activate"
  /\ activeTasks' = [activeTasks EXCEPT ![IdOf[current]] = current]
  /\ status' = [status EXCEPT ![current] = "Running"]
  /\ loop' = "context"
  /\ UNCHANGED <<queueVars, ctx, watcher, chanVars, level, current, ahead, lifeVars>>

\* context.WithTimeout(ts.ctx, task.Timeout) and task.CancelFunc = cancel.
MakeContext ==
  /\ loop = "context"
  /\ ctx' = [ctx EXCEPT ![current] = sctx]
  /\ loop' = "send"
  /\ UNCHANGED <<queueVars, activeTasks, status, watcher, chanVars, level, current, ahead, lifeVars>>

\* Mutant: no watcher is started for the task.
SendTaskUnwatched ==
  /\ loop = "send" /\ ~closed /\ Len(taskChan) < ChanCap
  /\ taskChan' = Append(taskChan, current)
  /\ loop' = "top" /\ level' = 0 /\ current' = NoTask /\ ahead' = {}
  /\ UNCHANGED <<queueVars, tableVars, closed, delivered, lifeVars>>

SendTask ==
  /\ loop = "send" /\ ~closed /\ Len(taskChan) < ChanCap
  /\ taskChan' = Append(taskChan, current)
  /\ watcher' = [watcher EXCEPT ![current] = "wait"]
  /\ loop' = "top" /\ level' = 0 /\ current' = NoTask /\ ahead' = {}
  /\ UNCHANGED <<queueVars, activeTasks, status, ctx, closed, delivered, lifeVars>>

SendPanics ==
  /\ loop = "send" /\ closed
  /\ crashed' = TRUE
  /\ UNCHANGED <<queueVars, tableVars, chanVars, loopVars, running, sctx, stopper>>

\* "task channel full": the status is written without activeLock, the entry removed under it.
SendRejected ==
  /\ loop = "send" /\ ~closed /\ Len(taskChan) >= ChanCap
  /\ status' = [status EXCEPT ![current] = "Failed"]
  /\ loop' = "reject"
  /\ UNCHANGED <<queueVars, activeTasks, ctx, watcher, chanVars, level, current, ahead, lifeVars>>

\* Mutant: the rejected task stays in the active table.
RejectKeeps ==
  /\ loop = "reject"
  /\ loop' = "top" /\ level' = 0 /\ current' = NoTask /\ ahead' = {}
  /\ UNCHANGED <<queueVars, tableVars, chanVars, lifeVars>>

Reject ==
  /\ loop = "reject"
  /\ activeTasks' = [activeTasks EXCEPT ![IdOf[current]] = NoTask]
  /\ loop' = "top" /\ level' = 0 /\ current' = NoTask /\ ahead' = {}
  /\ UNCHANGED <<queueVars, status, ctx, watcher, chanVars, lifeVars>>

-----------------------------------------------------------------------------
(* The watcher of a dispatched task *)

Deadline(t) ==
  /\ ctx[t] = "live"
  /\ ctx' = [ctx EXCEPT ![t] = "expired"]
  /\ UNCHANGED <<queueVars, activeTasks, status, watcher, chanVars, loopVars, lifeVars>>

\* Mutant: the watcher does not ask whether its task is still active.
WatcherFiresUnchecked(t) ==
  /\ watcher[t] = "wait" /\ ctx[t] \in {"cancelled", "expired"}
  /\ watcher' = [watcher EXCEPT ![t] = "done"]
  /\ status' = IF ctx[t] = "expired" THEN [status EXCEPT ![t] = "Failed"] ELSE status
  /\ activeTasks' = [activeTasks EXCEPT ![IdOf[t]] = NoTask]
  /\ UNCHANGED <<queueVars, ctx, chanVars, loopVars, lifeVars>>

\* The table is asked for the ID, whichever task is stored under it by now.
WatcherFires(t) ==
  /\ watcher[t] = "wait" /\ ctx[t] \in {"cancelled", "expired"}
  /\ watcher' = [watcher EXCEPT ![t] = "done"]
  /\ \/ /\ activeTasks[IdOf[t]] # NoTask
        /\ status' = IF ctx[t] = "expired" THEN [status EXCEPT ![t] = "Failed"] ELSE status
        /\ activeTasks' = [activeTasks EXCEPT ![IdOf[t]] = NoTask]
     \/ /\ activeTasks[IdOf[t]] = NoTask
        /\ UNCHANGED <<status, activeTasks>>
  /\ UNCHANGED <<queueVars, ctx, chanVars, loopVars, lifeVars>>

-----------------------------------------------------------------------------
Stopper == StopBegin \/ StopClose \/ StopReturn
Caller ==
  \/ \E t \in Tasks : ScheduleTask(t)
  \/ \E id \in TaskIds : CancelActive(id) \/ CancelQueued(id) \/ PauseTask(id) \/ ResumeTask(id)
Loop ==
  \/ LoopExit \/ ScanBegin \/ ScanEmpty \/ ScanFound \/ Pop
  \/ Activate \/ MakeContext \/ SendTask \/ SendPanics \/ SendRejected \/ Reject
Watcher(t) == Deadline(t) \/ WatcherFires(t)

Next ==
  /\ ~crashed
  /\ \/ Start \/ Stopper
     \/ Caller
     \/ Receive
     \/ Loop
     \/ \E t \in Tasks : Watcher(t)

Spec == Init /\ [][Next]_vars

\* The scheduling goroutine, the watchers, the receivers and a Stop that was begun go on while
\* they can, and deadlines pass; callers owe nothing.
Fairness ==
  /\ WF_vars(~crashed /\ Loop)
  /\ \A t \in Tasks : WF_vars(~crashed /\ Watcher(t))
  /\ WF_vars(~crashed /\ Receive)
  /\ WF_vars(~crashed /\ (StopClose \/ StopReturn))

FairSpec == Spec /\ Fairness

-----------------------------------------------------------------------------
(* Properties *)

\* getNextTask never overtakes: when it pops a task, no task of a higher priority that was
\* already queued when the scan began is still waiting.
NoOvertaking ==
  [][Pop => \A t \in ahead : LevelOf(t) < level => t \notin Queued]_vars

\* No task is lost or duplicated between ScheduleTask and its receiver: a task waits in exactly
\* one place at a time, and one that left its queue was withdrawn, dispatched or rejected.
Waiting(t) ==
  Cardinality({p \in UNION {{l} \X DOMAIN queues[l] : l \in Levels} : queues[p[1]][p[2]] = t})
  + Cardinality({i \in DOMAIN taskChan : taskChan[i] = t})
  + (IF current = t THEN 1 ELSE 0) + (IF t \in delivered THEN 1 ELSE 0)

Conservation ==
  \A t \in Tasks :
    /\ Waiting(t) <= 1
    /\ status[t] = "Pending" /\ t \notin withdrawn => Waiting(t) = 1

\* CancelTask of a queued task is final: the task is never dispatched, although the scheduling
\* goroutine may have seen it in the queue before it was taken out.
WithdrawnIsNotDispatched ==
  withdrawn \cap (delivered \cup Range(taskChan) \cup {current}) = {}

\* Every task in the active table is in the hands of the scheduling goroutine or has a watcher
\* that will release it: no path leaves an entry behind.
TrackedIsWatched ==
  \A id \in TaskIds :
    LET t == activeTasks[id] IN
    t # NoTask => \/ watcher[t] = "wait"
                  \/ current = t /\ loop \in {"context", "send", "reject"}

\* A cancelled task stays cancelled: its own deadline, racing the cancellation, never turns it
\* into a failure.  Only the rejection by a full channel still overwrites the status.
CancelledStays ==
  [][\A t \in Tasks : status[t] = "Cancelled" /\ status'[t] # "Cancelled" => SendRejected]_vars

\* Every active task is released in the end: by cancellation, its timeout or the scheduler's stop.
ActiveIsReleased ==
  \A t \in Tasks : activeTasks[IdOf[t]] = t ~> (activeTasks[IdOf[t]] # t \/ crashed)

\* The scheduling goroutine waits for a queue that was emptied after its size was read.
StuckInPop == loop = "pop" /\ queues[level] = <<>>

\* Stop returns, or the process dies, unless the scheduling goroutine waits in Pop.
StopReturns == stopper # "idle" ~> (stopper = "idle" \/ crashed \/ StuckInPop)

\* "Priority scheduling with an emergency channel": an emergency task does not wait for ever.
EmergencyIsServed ==
  \A t \in Tasks :
    (PriorityOf[t] = 0 /\ t \in QueuedAt(0)) ~> (t \notin QueuedAt(0) \/ sctx = "cancelled" \/ crashed)
=============================================================================
