--------------------------- MODULE SchedulerProofs ---------------------------
(***************************************************************************)
(* Proofs about the task scheduler, for any tasks, IDs and priorities and  *)
(* any capacity of the task channel: it is type-correct, loses and         *)
(* duplicates no task, never dispatches one that was withdrawn, never      *)
(* overtakes, leaves no entry unwatched and, when IDs are distinct, leaves *)
(* a cancelled task cancelled.                                             *)
(***************************************************************************)
EXTENDS TaskScheduler, SequenceLemmas, FiniteSetTheorems

-----------------------------------------------------------------------------
(* The inductive invariant *)

\* The goroutine has a task in hand between Pop and the end of executeTask, and does not run
\* before Start.
HandInv == /\ loop \in {"activate", "context", "send", "reject"} <=> current # NoTask
           /\ sctx = "none" => loop = "off"

\* The active table knows a task by its own ID, and no cancelled one.
ActiveInv ==
  \A id \in TaskIds : activeTasks[id] # NoTask =>
    IdOf[activeTasks[id]] = id /\ status[activeTasks[id]] # "Cancelled"

\* Where a task can be once ScheduleTask has taken it.
Handed == Range(taskChan) \cup delivered \cup ({current} \ {NoTask})
Known == Queued \cup Handed \cup withdrawn \cup ahead

\* A queue holds the tasks of its priority, each once.
QueueInv == \A l \in Levels : Distinct(queues[l]) /\ \A t \in QueuedAt(l) : LevelOf(t) = l

\* A task is in one place at a time.
PlaceInv ==
  /\ Distinct(taskChan)
  /\ Queued \cap (Handed \cup withdrawn) = {}
  /\ withdrawn \cap Handed = {}
  /\ Range(taskChan) \cap delivered = {}
  /\ current \notin Range(taskChan) \cup delivered

\* The status of a task tells where it is: in none of the places when it is new, queued or just
\* popped (or withdrawn) when it is pending.
StatusInv ==
  /\ \A t \in Known : status[t] # "new"
  /\ \A t \in Queued : status[t] = "Pending"
  /\ loop = "activate" => status[current] = "Pending"
  /\ \A t \in Tasks : status[t] = "Pending" =>
       t \in withdrawn \/ t \in Queued \/ (loop = "activate" /\ t = current)

\* Only dispatched tasks are watched.
WatchInv == \A t \in Tasks : watcher[t] # "none" => t \in Range(taskChan) \cup delivered

\* What the scan has behind it holds no task that was there when it began.
ScanInv == loop \in {"scan", "pop"} => \A t \in ahead : LevelOf(t) < level => t \notin Queued

SInv == /\ TypeOK /\ HandInv /\ ActiveInv /\ QueueInv /\ PlaceInv /\ StatusInv /\ WatchInv /\ ScanInv
        /\ TrackedIsWatched

-----------------------------------------------------------------------------
(* Lemmas *)

\* The switch of ScheduleTask always chooses one of the four queues.
LEMMA LevelOfType ==
  ASSUME NEW t \in Tasks
  PROVE  LevelOf(t) \in Levels
BY DEF LevelOf, Levels

\* The sets of tasks in the places.
LEMMA PlacesType ==
  ASSUME TypeOK
  PROVE  /\ \A l \in Levels : QueuedAt(l) \subseteq Tasks
         /\ Queued \subseteq Tasks /\ Range(taskChan) \subseteq Tasks
         /\ Handed \subseteq Tasks /\ Known \subseteq Tasks
<1>1. ASSUME NEW q \in Seq(Tasks) PROVE Range(q) \subseteq Tasks
  <2>1. \A e : e \in Range(q) <=> \E i \in 1..Len(q) : q[i] = e
    BY RangeMember
  <2>2. \A i \in 1..Len(q) : q[i] \in Tasks
    BY ElementOfSeq
  <2> QED  BY <2>1, <2>2
<1>2. \A l \in Levels : QueuedAt(l) \subseteq Tasks
  BY <1>1 DEF TypeOK, QueuedAt
<1>3. Queued \subseteq Tasks
  BY <1>2 DEF Queued
<1>4. Range(taskChan) \subseteq Tasks
  BY <1>1 DEF TypeOK
<1> QED  BY <1>2, <1>3, <1>4 DEF TypeOK, Handed, Known

\* A queued task is queued at one level, its own.
LEMMA QueuedLevel ==
  ASSUME QueueInv, NEW t
  PROVE  t \in Queued => LevelOf(t) \in Levels /\ t \in QueuedAt(LevelOf(t))
<1> SUFFICES ASSUME t \in Queued PROVE LevelOf(t) \in Levels /\ t \in QueuedAt(LevelOf(t))
  OBVIOUS
<1>1. PICK l \in Levels : t \in QueuedAt(l)
  BY DEF Queued
<1> QED  BY <1>1 DEF QueueInv

\* A task in the active table has left its queue and has been activated.
LEMMA ActiveIsHanded ==
  ASSUME SInv, NEW id \in TaskIds, activeTasks[id] # NoTask
  PROVE  LET t == activeTasks[id] IN
         /\ t \in Tasks /\ t \in Handed /\ t \notin Queued /\ t \notin withdrawn
         /\ ~(loop = "activate" /\ t = current)
         /\ status[t] \notin {"new", "Pending", "Cancelled"}
<1> DEFINE t == activeTasks[id]
<1>1. t \in Tasks
  BY DEF SInv, TypeOK
<1>2. \/ t \in Range(taskChan) \cup delivered
      \/ current = t /\ loop \in {"context", "send", "reject"}
  BY <1>1 DEF SInv, TrackedIsWatched, WatchInv
<1>3. t \in Handed /\ ~(loop = "activate" /\ t = current)
  BY <1>2 DEF Handed, SInv, PlaceInv
<1>4. t \notin Queued /\ t \notin withdrawn
  BY <1>3 DEF SInv, PlaceInv
<1>5. status[t] \notin {"new", "Pending"}
  BY <1>1, <1>3, <1>4 DEF SInv, StatusInv, Known
<1> QED  BY <1>1, <1>3, <1>4, <1>5 DEF SInv, ActiveInv

\* A step that moves no task.
LEMMA PlacesKept ==
  ASSUME SInv, UNCHANGED <<queues, taskChan, delivered, withdrawn, current>>, ahead' \subseteq ahead
  PROVE  /\ Queued' = Queued /\ Handed' = Handed /\ Known' \subseteq Known
         /\ Range(taskChan)' = Range(taskChan)
         /\ QueueInv' /\ PlaceInv'
<1>1. \A l \in Levels : QueuedAt(l)' = QueuedAt(l)
  BY DEF QueuedAt
<1>2. Queued' = Queued
  BY <1>1 DEF Queued
<1>3. Handed' = Handed /\ Range(taskChan)' = Range(taskChan)
  BY DEF Handed
<1>4. Known' \subseteq Known
  BY <1>2, <1>3 DEF Known
<1>5. QueueInv'
  BY <1>1 DEF SInv, QueueInv, LevelOf
<1>6. PlaceInv'
  BY <1>2, <1>3 DEF SInv, PlaceInv
<1> QED  BY <1>2, <1>3, <1>4, <1>5, <1>6

\* The scheduler as newly made satisfies the invariant.
LEMMA SInvInit == Init => SInv
<1> SUFFICES ASSUME Init PROVE SInv
  OBVIOUS
<1> USE DEF Init
<1>1. <<>> \in Seq(Tasks) /\ Len(<<>>) = 0 /\ Range(<<>>) = {} /\ Distinct(<<>>)
  BY EmptySeq DEF Range, Distinct
<1>2. TypeOK
  <2>1. queues \in [Levels -> Seq(Tasks)] /\ taskChan \in Seq(Tasks)
    BY <1>1
  <2>2. activeTasks \in [TaskIds -> Tasks \cup {NoTask}]
    OBVIOUS
  <2>3. level \in Levels
    BY DEF Levels
  <2> QED  BY <2>1, <2>2, <2>3 DEF TypeOK
<1>3. Queued = {} /\ Handed = {} /\ Known = {}
  <2>1. \A l \in Levels : QueuedAt(l) = {}
    BY <1>1 DEF QueuedAt
  <2>2. Queued = {}
    BY <2>1 DEF Queued
  <2> QED  BY <1>1, <2>2 DEF Handed, Known
<1>4. HandInv /\ ActiveInv /\ WatchInv /\ ScanInv /\ TrackedIsWatched
  BY DEF HandInv, ActiveInv, WatchInv, ScanInv, TrackedIsWatched
<1>5. QueueInv
  BY <1>1 DEF QueueInv, QueuedAt
<1>6. PlaceInv /\ StatusInv
  BY <1>1, <1>3, SchedulerAssumption DEF PlaceInv, StatusInv
<1> QED  BY <1>2, <1>4, <1>5, <1>6 DEF SInv

-----------------------------------------------------------------------------
(* Steps that move no task *)

\* Start, Stop and the scan: the loop moves on, with nothing in hand.
LEMMA LifeKeepsSInv ==
  ASSUME SInv, Start \/ Stopper \/ LoopExit \/ ScanEmpty \/ ScanFound \/ SendPanics
  PROVE  SInv'
<1>1. /\ UNCHANGED <<queues, taskChan, delivered, withdrawn, current, activeTasks, status, watcher>>
      /\ ahead' \subseteq ahead
  BY DEF Start, Stopper, StopBegin, StopClose, StopReturn, LoopExit, ScanEmpty, ScanFound, SendPanics,
         queueVars, tableVars, chanVars, loopVars
<1>2. /\ Queued' = Queued /\ Handed' = Handed /\ Known' \subseteq Known
      /\ Range(taskChan)' = Range(taskChan) /\ QueueInv' /\ PlaceInv'
  BY <1>1, PlacesKept
<1>3. TypeOK'
  <2>1. ctx' \in [Tasks -> {"none", "live", "cancelled", "expired"}]
    BY DEF Start, Stopper, StopBegin, StopClose, StopReturn, LoopExit, ScanEmpty, ScanFound, SendPanics,
           tableVars, Cancelled, SInv, TypeOK
  <2>2. level' \in Levels /\ loop' \in {"off", "top", "scan", "pop", "activate", "context", "send", "reject"}
    BY DEF Start, Stopper, StopBegin, StopClose, StopReturn, LoopExit, ScanEmpty, ScanFound, SendPanics,
           loopVars, SInv, TypeOK, Levels
  <2>3. /\ running' \in BOOLEAN /\ closed' \in BOOLEAN /\ crashed' \in BOOLEAN
        /\ sctx' \in {"none", "live", "cancelled"} /\ stopper' \in {"idle", "close", "wait"}
    BY DEF Start, Stopper, StopBegin, StopClose, StopReturn, LoopExit, ScanEmpty, ScanFound, SendPanics,
           lifeVars, chanVars, SInv, TypeOK
  <2> QED  BY <1>1, <2>1, <2>2, <2>3 DEF SInv, TypeOK
<1>4. \/ loop' = loop
      \/ loop \notin {"activate", "context", "send", "reject"} /\ loop' \in {"off", "top", "scan", "pop"} /\ current = NoTask
  BY DEF Start, Stopper, StopBegin, StopClose, StopReturn, LoopExit, ScanEmpty, ScanFound, SendPanics,
         loopVars, SInv, HandInv, TypeOK
<1>5. HandInv'
  <2>1. sctx' = "none" => sctx = "none" /\ loop' = loop
    BY DEF Start, Stopper, StopBegin, StopClose, StopReturn, LoopExit, ScanEmpty, ScanFound, SendPanics,
           lifeVars, loopVars, SInv, HandInv
  <2> QED  BY <1>1, <1>4, <2>1 DEF SInv, HandInv
<1>6. ActiveInv' /\ StatusInv' /\ WatchInv' /\ TrackedIsWatched'
  BY <1>1, <1>2, <1>4 DEF SInv, ActiveInv, StatusInv, WatchInv, TrackedIsWatched
<1>7. ScanInv'
  <2>1. CASE ScanEmpty
    <3> SUFFICES ASSUME loop' \in {"scan", "pop"}, NEW t \in ahead, LevelOf(t) < level' PROVE t \notin Queued
      BY <1>1, <1>2 DEF ScanInv, LevelOf
    <3>1. level # 3 /\ level' = level + 1 /\ queues[level] = <<>> /\ loop = "scan"
      BY <2>1 DEF ScanEmpty
    <3>2. level \in Nat /\ LevelOf(t) \in Nat
      <4>1. t \in Tasks
        BY DEF SInv, TypeOK
      <4>2. LevelOf(t) \in Levels /\ level \in Levels
        BY <4>1, LevelOfType DEF SInv, TypeOK
      <4> QED  BY <4>2 DEF Levels
    <3>3. CASE LevelOf(t) < level
      BY <3>1, <3>3 DEF SInv, ScanInv
    <3>4. CASE LevelOf(t) = level
      <4>1. QueuedAt(level) = {}
        BY <3>1 DEF QueuedAt, Range
      <4> QED  BY <3>4, <4>1, QueuedLevel DEF SInv
    <3> QED  BY <3>1, <3>2, <3>3, <3>4
  <2>2. CASE ~ScanEmpty
    <3>1. \/ loop' = loop /\ level' = level
          \/ loop = "scan" /\ loop' = "pop" /\ level' = level
          \/ loop' \notin {"scan", "pop"}
      BY <2>2 DEF Start, Stopper, StopBegin, StopClose, StopReturn, LoopExit, ScanFound, SendPanics, loopVars
    <3> QED  BY <1>1, <1>2, <3>1 DEF SInv, ScanInv, LevelOf
  <2> QED  BY <2>1, <2>2
<1> QED  BY <1>2, <1>3, <1>5, <1>6, <1>7 DEF SInv

\* CancelTask, PauseTask and ResumeTask of an active task; deadlines and watchers: the loop and
\* the tasks stay where they are.
LEMMA TableKeepsSInv ==
  ASSUME SInv, \/ \E id \in TaskIds : CancelActive(id) \/ PauseTask(id) \/ ResumeTask(id)
               \/ \E t \in Tasks : Deadline(t) \/ WatcherFires(t)
  PROVE  SInv'
<1>1. ASSUME UNCHANGED <<queueVars, chanVars, loopVars, lifeVars>>,
             NEW act \in [TaskIds -> Tasks \cup {NoTask}], activeTasks' = act,
             NEW ctx1 \in [Tasks -> {"none", "live", "cancelled", "expired"}], ctx' = ctx1,
             NEW st \in [Tasks -> {"new", "Pending", "Running", "Paused", "Failed", "Cancelled"}], status' = st,
             NEW wt \in [Tasks -> {"none", "wait", "done"}], watcher' = wt,
             \A id \in TaskIds : act[id] \in {activeTasks[id], NoTask},
             \A id \in TaskIds : act[id] # NoTask => st[act[id]] # "Cancelled" /\ wt[act[id]] = watcher[act[id]],
             \A t \in Tasks : wt[t] # "none" => watcher[t] # "none",
             \A t \in Tasks : st[t] # status[t] =>
               /\ st[t] \notin {"new", "Pending"}
               /\ t \notin Queued /\ ~(loop = "activate" /\ t = current)
      PROVE SInv'
  <2>1. UNCHANGED <<queues, taskChan, delivered, withdrawn, current, loop, level>> /\ ahead' \subseteq ahead
    BY <1>1 DEF queueVars, chanVars, loopVars
  <2>2. /\ Queued' = Queued /\ Handed' = Handed /\ Known' \subseteq Known
        /\ Range(taskChan)' = Range(taskChan) /\ QueueInv' /\ PlaceInv'
    BY <2>1, PlacesKept
  <2>3. TypeOK'
    BY <1>1 DEF SInv, TypeOK, queueVars, chanVars, loopVars, lifeVars
  <2>4. HandInv' /\ WatchInv' /\ ScanInv'
    BY <1>1, <2>1, <2>2 DEF SInv, HandInv, WatchInv, ScanInv, LevelOf, lifeVars
  <2>5. ActiveInv' /\ TrackedIsWatched'
    BY <1>1, <2>1 DEF SInv, ActiveInv, TrackedIsWatched
  <2>6. StatusInv'
    <3>1. Queued \subseteq Tasks /\ Known \subseteq Tasks
      BY PlacesType DEF SInv
    <3>2. loop = "activate" => current \in Tasks
      BY DEF SInv, TypeOK, HandInv
    <3> QED  BY <1>1, <2>1, <2>2, <3>1, <3>2 DEF SInv, StatusInv
  <2> QED  BY <2>2, <2>3, <2>4, <2>5, <2>6 DEF SInv
<1>2. ASSUME NEW id \in TaskIds, CancelActive(id) PROVE SInv'
  <2> DEFINE t == activeTasks[id]
  <2>1. /\ t # NoTask /\ t \in Tasks
        /\ ctx' = Cancelled({t}) /\ status' = [status EXCEPT ![t] = "Cancelled"]
        /\ activeTasks' = [activeTasks EXCEPT ![id] = NoTask]
        /\ UNCHANGED <<queueVars, watcher, chanVars, loopVars, lifeVars>>
    BY <1>2 DEF CancelActive, SInv, TypeOK
  <2>2. t \notin Queued /\ ~(loop = "activate" /\ t = current)
    BY <2>1, ActiveIsHanded
  <2>3. \A i \in TaskIds : activeTasks[i] = t => i = id
    BY <2>1 DEF SInv, ActiveInv
  <2>4. ctx' \in [Tasks -> {"none", "live", "cancelled", "expired"}]
    BY <2>1 DEF Cancelled, SInv, TypeOK
  <2>5. activeTasks' \in [TaskIds -> Tasks \cup {NoTask}]
    BY <2>1 DEF SInv, TypeOK
  <2>6. /\ status' \in [Tasks -> {"new", "Pending", "Running", "Paused", "Failed", "Cancelled"}]
        /\ \A u \in Tasks \ {t} : status'[u] = status[u]
        /\ status'[t] = "Cancelled"
    BY <2>1 DEF SInv, TypeOK
  <2>7. watcher' \in [Tasks -> {"none", "wait", "done"}]
    BY <2>1 DEF SInv, TypeOK
  <2>8. \A i \in TaskIds : activeTasks'[i] \in {activeTasks[i], NoTask}
    BY <2>1 DEF SInv, TypeOK
  <2>9. \A i \in TaskIds : activeTasks'[i] # NoTask => /\ activeTasks'[i] = activeTasks[i] /\ activeTasks[i] # t
                                                       /\ activeTasks[i] \in Tasks
    BY <2>1, <2>3 DEF SInv, TypeOK
  <2> HIDE DEF t
  <2>10. \A i \in TaskIds : activeTasks'[i] # NoTask => /\ status'[activeTasks'[i]] # "Cancelled"
                                                        /\ watcher'[activeTasks'[i]] = watcher[activeTasks'[i]]
    BY <2>1, <2>6, <2>9 DEF SInv, ActiveInv
  <2>11. \A u \in Tasks : status'[u] # status[u] =>
           /\ status'[u] \notin {"new", "Pending"}
           /\ u \notin Queued /\ ~(loop = "activate" /\ u = current)
    BY <2>2, <2>6
  <2>12. \A u \in Tasks : watcher'[u] # "none" => watcher[u] # "none"
    BY <2>1
  <2>13. UNCHANGED <<queueVars, chanVars, loopVars, lifeVars>>
    BY <2>1
  <2>14. status' \in [Tasks -> {"new", "Pending", "Running", "Paused", "Failed", "Cancelled"}]
    BY <2>6
  <2> QED  BY <1>1, <2>4, <2>5, <2>7, <2>8, <2>10, <2>11, <2>12, <2>13, <2>14
<1>3. ASSUME NEW id \in TaskIds, PauseTask(id) \/ ResumeTask(id) PROVE SInv'
  <2> DEFINE t == activeTasks[id]
  <2>1. PICK s \in {"Paused", "Running"} :
          /\ t # NoTask /\ t \in Tasks /\ status' = [status EXCEPT ![t] = s]
          /\ UNCHANGED <<queueVars, activeTasks, ctx, watcher, chanVars, loopVars, lifeVars>>
    BY <1>3 DEF PauseTask, ResumeTask, SInv, TypeOK
  <2>2. t \notin Queued /\ ~(loop = "activate" /\ t = current)
    BY <2>1, ActiveIsHanded
  <2>3. /\ status' \in [Tasks -> {"new", "Pending", "Running", "Paused", "Failed", "Cancelled"}]
        /\ \A u \in Tasks \ {t} : status'[u] = status[u]
        /\ status'[t] = s
    BY <2>1 DEF SInv, TypeOK
  <2>4. /\ activeTasks \in [TaskIds -> Tasks \cup {NoTask}] /\ watcher \in [Tasks -> {"none", "wait", "done"}]
        /\ ctx \in [Tasks -> {"none", "live", "cancelled", "expired"}]
    BY DEF SInv, TypeOK
  <2> HIDE DEF t
  <2>5. \A i \in TaskIds : activeTasks'[i] # NoTask => /\ status'[activeTasks'[i]] # "Cancelled"
                                                       /\ watcher'[activeTasks'[i]] = watcher[activeTasks'[i]]
    BY <2>1, <2>3, <2>4 DEF SInv, ActiveInv
  <2>6. \A u \in Tasks : status'[u] # status[u] =>
          /\ status'[u] \notin {"new", "Pending"}
          /\ u \notin Queued /\ ~(loop = "activate" /\ u = current)
    BY <2>2, <2>3
  <2>7. /\ activeTasks' \in [TaskIds -> Tasks \cup {NoTask}] /\ watcher' \in [Tasks -> {"none", "wait", "done"}]
        /\ ctx' \in [Tasks -> {"none", "live", "cancelled", "expired"}]
        /\ UNCHANGED <<queueVars, chanVars, loopVars, lifeVars>>
        /\ \A i \in TaskIds : activeTasks'[i] \in {activeTasks[i], NoTask}
        /\ \A u \in Tasks : watcher'[u] # "none" => watcher[u] # "none"
    BY <2>1, <2>4
  <2>8. status' \in [Tasks -> {"new", "Pending", "Running", "Paused", "Failed", "Cancelled"}]
    BY <2>3
  <2> QED  BY <1>1, <2>5, <2>6, <2>7, <2>8
<1>4. ASSUME NEW t \in Tasks, Deadline(t) PROVE SInv'
  <2>1. /\ activeTasks \in [TaskIds -> Tasks \cup {NoTask}] /\ watcher \in [Tasks -> {"none", "wait", "done"}]
        /\ ctx' \in [Tasks -> {"none", "live", "cancelled", "expired"}]
        /\ status \in [Tasks -> {"new", "Pending", "Running", "Paused", "Failed", "Cancelled"}]
        /\ UNCHANGED <<queueVars, activeTasks, status, watcher, chanVars, loopVars, lifeVars>>
    BY <1>4 DEF Deadline, SInv, TypeOK
  <2> QED  BY <1>1, <2>1 DEF SInv, ActiveInv
<1>5. ASSUME NEW t \in Tasks, WatcherFires(t) PROVE SInv'
  <2>0. IdOf[t] \in TaskIds /\ watcher[t] = "wait"
    BY <1>5, SchedulerAssumption DEF WatcherFires
  <2>1. /\ watcher' \in [Tasks -> {"none", "wait", "done"}] /\ watcher'[t] = "done"
        /\ \A u \in Tasks \ {t} : watcher'[u] = watcher[u]
        /\ ctx' \in [Tasks -> {"none", "live", "cancelled", "expired"}]
        /\ UNCHANGED <<queueVars, ctx, chanVars, loopVars, lifeVars>>
    BY <1>5 DEF WatcherFires, SInv, TypeOK
  <2>2. /\ status' \in [Tasks -> {"new", "Pending", "Running", "Paused", "Failed", "Cancelled"}]
        /\ \A u \in Tasks : status'[u] # status[u] => u = t /\ status'[u] = "Failed"
    BY <1>5 DEF WatcherFires, SInv, TypeOK
  <2>3. /\ activeTasks' \in [TaskIds -> Tasks \cup {NoTask}]
        /\ \A i \in TaskIds : activeTasks'[i] \in {activeTasks[i], NoTask}
        /\ activeTasks'[IdOf[t]] = NoTask
    BY <1>5, <2>0 DEF WatcherFires, SInv, TypeOK
  <2>4. \A i \in TaskIds : activeTasks'[i] # NoTask => activeTasks'[i] # t
    BY <2>3 DEF SInv, ActiveInv
  <2>5. t \notin Queued /\ ~(loop = "activate" /\ t = current)
    <3>1. t \in Range(taskChan) \cup delivered
      BY <2>0 DEF SInv, WatchInv
    <3> QED  BY <3>1 DEF SInv, PlaceInv, Handed
  <2>6. \A i \in TaskIds : activeTasks'[i] # NoTask =>
          /\ activeTasks'[i] \in Tasks /\ status'[activeTasks'[i]] # "Cancelled"
          /\ watcher'[activeTasks'[i]] = watcher[activeTasks'[i]]
    <3> SUFFICES ASSUME NEW i \in TaskIds, activeTasks'[i] # NoTask
                 PROVE /\ activeTasks'[i] \in Tasks /\ status'[activeTasks'[i]] # "Cancelled"
                       /\ watcher'[activeTasks'[i]] = watcher[activeTasks'[i]]
      OBVIOUS
    <3>1. activeTasks'[i] = activeTasks[i] /\ activeTasks[i] \in Tasks /\ activeTasks[i] # t
      BY <2>3, <2>4
    <3>2. status[activeTasks[i]] # "Cancelled"
      BY <3>1 DEF SInv, ActiveInv
    <3> QED  BY <2>1, <2>2, <3>1, <3>2
  <2>7. /\ \A u \in Tasks : watcher'[u] # "none" => watcher[u] # "none"
        /\ \A u \in Tasks : status'[u] # status[u] =>
               /\ status'[u] \notin {"new", "Pending"}
               /\ u \notin Queued /\ ~(loop = "activate" /\ u = current)
    BY <2>0, <2>1, <2>2, <2>5
  <2> QED  BY <1>1, <2>1, <2>2, <2>3, <2>6, <2>7
<1> QED  BY <1>2, <1>3, <1>4, <1>5

\* executeTask up to the send: the table, the context and the status of the task in hand.
LEMMA ExecuteKeepsSInv ==
  ASSUME SInv, Activate \/ MakeContext \/ SendRejected
  PROVE  SInv'
<1>0. current \in Tasks /\ IdOf[current] \in TaskIds /\ current # NoTask /\ sctx # "none"
  BY SchedulerAssumption DEF Activate, MakeContext, SendRejected, SInv, HandInv, TypeOK
<1>1. /\ UNCHANGED <<queues, taskChan, delivered, withdrawn, current, ahead, watcher, closed, level>>
      /\ UNCHANGED lifeVars
      /\ loop \in {"activate", "context", "send"} /\ loop' \in {"context", "send", "reject"}
  BY DEF Activate, MakeContext, SendRejected, queueVars, chanVars
<1>2. /\ Queued' = Queued /\ Handed' = Handed /\ Known' \subseteq Known
      /\ Range(taskChan)' = Range(taskChan) /\ QueueInv' /\ PlaceInv'
  BY <1>1, PlacesKept
<1>3. /\ status' \in [Tasks -> {"new", "Pending", "Running", "Paused", "Failed", "Cancelled"}]
      /\ \A t \in Tasks : status'[t] = status[t] \/ (t = current /\ status'[t] \in {"Running", "Failed"})
      /\ loop = "activate" => status'[current] = "Running"
  BY <1>0 DEF Activate, MakeContext, SendRejected, SInv, TypeOK
<1>4. /\ activeTasks' \in [TaskIds -> Tasks \cup {NoTask}]
      /\ \/ UNCHANGED activeTasks
         \/ loop = "activate" /\ activeTasks' = [activeTasks EXCEPT ![IdOf[current]] = current]
  BY <1>0 DEF Activate, MakeContext, SendRejected, SInv, TypeOK
<1>5. ctx' \in [Tasks -> {"none", "live", "cancelled", "expired"}]
  BY <1>0 DEF Activate, MakeContext, SendRejected, SInv, TypeOK
<1>6. TypeOK'
  BY <1>1, <1>3, <1>4, <1>5 DEF SInv, TypeOK, lifeVars
<1>7. HandInv' /\ WatchInv' /\ ScanInv'
  BY <1>0, <1>1, <1>2 DEF SInv, HandInv, WatchInv, ScanInv, lifeVars
<1>8. \A id \in TaskIds : activeTasks'[id] = activeTasks[id]
                          \/ (loop = "activate" /\ id = IdOf[current] /\ activeTasks'[id] = current)
  BY <1>0, <1>4 DEF SInv, TypeOK
<1>9. ActiveInv'
  <2> SUFFICES ASSUME NEW id \in TaskIds, activeTasks'[id] # NoTask
               PROVE IdOf[activeTasks'[id]] = id /\ status'[activeTasks'[id]] # "Cancelled"
    BY DEF ActiveInv
  <2>1. CASE activeTasks'[id] = activeTasks[id]
    <3>1. activeTasks[id] \in Tasks /\ IdOf[activeTasks[id]] = id /\ status[activeTasks[id]] # "Cancelled"
      BY <2>1 DEF SInv, ActiveInv, TypeOK
    <3> QED  BY <1>3, <2>1, <3>1
  <2>2. CASE loop = "activate" /\ id = IdOf[current] /\ activeTasks'[id] = current
    BY <1>3, <2>2
  <2> QED  BY <1>8, <2>1, <2>2
<1>10. TrackedIsWatched'
  BY <1>0, <1>1, <1>8 DEF SInv, TrackedIsWatched, Activate, MakeContext, SendRejected
<1>11. StatusInv'
  <2>1. Queued \subseteq Tasks /\ Known \subseteq Tasks /\ current \notin Queued
    BY <1>0, PlacesType DEF SInv, PlaceInv, Handed
  <2>2. \A t \in Known' : status'[t] # "new"
    BY <1>2, <1>3, <2>1 DEF SInv, StatusInv
  <2>3. \A t \in Queued' : status'[t] = "Pending"
    BY <1>2, <1>3, <2>1 DEF SInv, StatusInv
  <2>4. \A t \in Tasks : status'[t] = "Pending" => t \in withdrawn \/ t \in Queued
    BY <1>3 DEF SInv, StatusInv
  <2> QED  BY <1>1, <1>2, <2>2, <2>3, <2>4 DEF StatusInv
<1> QED  BY <1>2, <1>6, <1>7, <1>9, <1>10, <1>11 DEF SInv

-----------------------------------------------------------------------------
(* Steps that move a task *)

\* A task leaves its queue.
LEMMA QueueShrinks ==
  ASSUME SInv, NEW l \in Levels, NEW q \in Seq(Tasks), Distinct(q), NEW e \in QueuedAt(l),
         Range(q) = QueuedAt(l) \ {e}, queues' = [queues EXCEPT ![l] = q]
  PROVE  queues' \in [Levels -> Seq(Tasks)] /\ QueueInv' /\ Queued' = Queued \ {e} /\ e \in Queued
<1>1. /\ queues' \in [Levels -> Seq(Tasks)] /\ queues'[l] = q
      /\ \A k \in Levels \ {l} : queues'[k] = queues[k]
  BY DEF SInv, TypeOK
<1>2. QueuedAt(l)' = QueuedAt(l) \ {e} /\ \A k \in Levels \ {l} : QueuedAt(k)' = QueuedAt(k)
  BY <1>1 DEF QueuedAt
<1>3. QueueInv'
  BY <1>1, <1>2 DEF SInv, QueueInv, LevelOf
<1>4. \A k \in Levels \ {l} : e \notin QueuedAt(k)
  BY DEF SInv, QueueInv
<1>5. Queued' = Queued \ {e} /\ e \in Queued
  BY <1>2, <1>4 DEF Queued
<1> QED  BY <1>1, <1>3, <1>5

\* ScheduleTask appends a task that is nowhere yet.
LEMMA ScheduleKeepsSInv ==
  ASSUME SInv, NEW t \in Tasks, ScheduleTask(t)
  PROVE  SInv'
<1> DEFINE l == LevelOf(t)
<1>0. l \in Levels /\ queues[l] \in Seq(Tasks) /\ Distinct(queues[l])
  BY LevelOfType DEF SInv, TypeOK, QueueInv
<1>1. /\ status[t] = "new" /\ status' = [status EXCEPT ![t] = "Pending"]
      /\ queues' = [queues EXCEPT ![l] = Append(@, t)]
      /\ UNCHANGED <<withdrawn, activeTasks, ctx, watcher, chanVars, loopVars, lifeVars>>
  BY DEF ScheduleTask
<1>2. t \notin Known /\ Queued \subseteq Tasks /\ Known \subseteq Tasks
  BY <1>1, PlacesType DEF SInv, StatusInv
<1>3. t \notin Queued /\ t \notin Handed /\ t \notin withdrawn /\ t \notin ahead
  BY <1>2 DEF Known
<1>4. t \notin Range(queues[l])
  BY <1>0, <1>3 DEF Queued, QueuedAt
<1>5. /\ Append(queues[l], t) \in Seq(Tasks) /\ Distinct(Append(queues[l], t))
      /\ Range(Append(queues[l], t)) = Range(queues[l]) \cup {t}
  BY <1>0, <1>4, AppendDistinct
<1>6. /\ queues' \in [Levels -> Seq(Tasks)] /\ queues'[l] = Append(queues[l], t)
      /\ \A k \in Levels \ {l} : queues'[k] = queues[k]
  BY <1>0, <1>1, <1>5 DEF SInv, TypeOK
<1>7. QueuedAt(l)' = QueuedAt(l) \cup {t} /\ \A k \in Levels \ {l} : QueuedAt(k)' = QueuedAt(k)
  BY <1>5, <1>6 DEF QueuedAt
<1>8. QueueInv'
  <2>1. ASSUME NEW k \in Levels PROVE Distinct(queues'[k]) /\ \A u \in QueuedAt(k)' : LevelOf(u) = k
    <3>1. Distinct(queues[k]) /\ \A u \in QueuedAt(k) : LevelOf(u) = k
      BY DEF SInv, QueueInv
    <3>2. CASE k = l
      BY <1>5, <1>6, <1>7, <3>1, <3>2
    <3>3. CASE k # l
      BY <1>6, <1>7, <3>1, <3>3
    <3> QED  BY <3>2, <3>3
  <2> QED  BY <2>1 DEF QueueInv, LevelOf
<1>9. Queued' = Queued \cup {t}
  BY <1>0, <1>7 DEF Queued
<1>10. /\ UNCHANGED <<taskChan, delivered, current, withdrawn, ahead, loop, level, sctx>>
       /\ Handed' = Handed /\ Range(taskChan)' = Range(taskChan) /\ Known' = Known \cup {t}
  BY <1>1, <1>9 DEF chanVars, loopVars, lifeVars, Handed, Known
<1> HIDE DEF l
<1>11. /\ status' \in [Tasks -> {"new", "Pending", "Running", "Paused", "Failed", "Cancelled"}]
       /\ status'[t] = "Pending" /\ \A u \in Tasks \ {t} : status'[u] = status[u]
  BY <1>1 DEF SInv, TypeOK
<1>12. TypeOK'
  BY <1>1, <1>6, <1>11 DEF SInv, TypeOK, chanVars, loopVars, lifeVars
<1>13. PlaceInv'
  BY <1>3, <1>9, <1>10 DEF SInv, PlaceInv
<1>14. StatusInv'
  <2>1. current # t
    BY <1>3, SchedulerAssumption DEF Handed
  <2>2. loop = "activate" => current \in Tasks
    BY DEF SInv, TypeOK, HandInv
  <2>3. \A u \in Known' : status'[u] # "new"
    BY <1>2, <1>10, <1>11 DEF SInv, StatusInv
  <2>4. \A u \in Queued' : status'[u] = "Pending"
    BY <1>2, <1>9, <1>11 DEF SInv, StatusInv
  <2> QED  BY <1>9, <1>10, <1>11, <2>1, <2>2, <2>3, <2>4 DEF SInv, StatusInv
<1>15. ActiveInv'
  BY <1>1, <1>11 DEF SInv, ActiveInv, TypeOK
<1>16. HandInv' /\ WatchInv' /\ TrackedIsWatched'
  BY <1>1, <1>10 DEF SInv, HandInv, WatchInv, TrackedIsWatched
<1>17. ScanInv'
  BY <1>3, <1>9, <1>10 DEF SInv, ScanInv, LevelOf
<1> QED  BY <1>8, <1>12, <1>13, <1>14, <1>15, <1>16, <1>17 DEF SInv

\* CancelTask takes a queued task out of its queue for good.
LEMMA CancelKeepsSInv ==
  ASSUME SInv, NEW id \in TaskIds, CancelQueued(id)
  PROVE  SInv'
<1>1. PICK l \in Levels :
        /\ QueuedAt(l) \cap HasId(id) # {}
        /\ LET i == SelectInSeq(queues[l], LAMBDA t : IdOf[t] = id) IN
             queues' = [queues EXCEPT ![l] = RemoveAt(@, i)] /\ withdrawn' = withdrawn \cup {queues[l][i]}
  BY DEF CancelQueued
<1> DEFINE s == queues[l]
           I == {i \in 1..Len(s) : IdOf[s[i]] = id}
           k == Min(I)
           e == s[k]
<1>2. s \in Seq(Tasks) /\ Distinct(s)
  BY DEF SInv, TypeOK, QueueInv
<1>3. k \in 1..Len(s)
  <2>1. PICK t \in Range(s) : IdOf[t] = id
    BY <1>1 DEF QueuedAt, HasId
  <2>2. I # {} /\ I \in SUBSET Nat
    BY <1>2, <2>1, RangeMember
  <2> HIDE DEF I
  <2>3. k \in I
    BY <2>2, MinIsMember
  <2> QED  BY <2>3 DEF I
<1>4. SelectInSeq(s, LAMBDA t : IdOf[t] = id) = k
  <2>1. I # {}
    <3>1. PICK t \in Range(s) : IdOf[t] = id
      BY <1>1 DEF QueuedAt, HasId
    <3> QED  BY <1>2, <3>1, RangeMember
  <2> QED  BY <2>1 DEF SelectInSeq
<1>5. queues' = [queues EXCEPT ![l] = RemoveAt(s, k)] /\ withdrawn' = withdrawn \cup {e}
  BY <1>1, <1>4
<1> HIDE DEF k
<1>6. /\ RemoveAt(s, k) \in Seq(Tasks) /\ Distinct(RemoveAt(s, k))
      /\ e \in Tasks /\ e \in Range(s) /\ Range(RemoveAt(s, k)) = Range(s) \ {e}
  BY <1>2, <1>3, RemoveAtDistinct
<1> DEFINE q == RemoveAt(s, k)
<1>7. queues' \in [Levels -> Seq(Tasks)] /\ QueueInv' /\ Queued' = Queued \ {e} /\ e \in Queued
  <2> HIDE DEF e, q
  <2>1. q \in Seq(Tasks) /\ Distinct(q) /\ e \in QueuedAt(l) /\ Range(q) = QueuedAt(l) \ {e}
    BY <1>6 DEF q, QueuedAt
  <2>2. queues' = [queues EXCEPT ![l] = q]
    BY <1>5 DEF q
  <2> QED  BY <2>1, <2>2, QueueShrinks
<1> HIDE DEF e, s
<1>8. /\ UNCHANGED <<tableVars, chanVars, loopVars, lifeVars>>
      /\ UNCHANGED <<taskChan, delivered, current, ahead, loop, level, sctx, activeTasks, status, watcher>>
      /\ Handed' = Handed /\ Range(taskChan)' = Range(taskChan)
  BY DEF CancelQueued, tableVars, chanVars, loopVars, lifeVars, Handed
<1>9. Known' \subseteq Known
  BY <1>5, <1>7, <1>8 DEF Known
<1>10. TypeOK'
  BY <1>5, <1>6, <1>7, <1>8 DEF SInv, TypeOK, tableVars, chanVars, loopVars, lifeVars
<1>11. PlaceInv'
  BY <1>5, <1>7, <1>8 DEF SInv, PlaceInv
<1>12. StatusInv'
  BY <1>5, <1>7, <1>8, <1>9 DEF SInv, StatusInv
<1>13. HandInv' /\ ActiveInv' /\ WatchInv' /\ TrackedIsWatched'
  BY <1>8 DEF SInv, HandInv, ActiveInv, WatchInv, TrackedIsWatched
<1>14. ScanInv'
  BY <1>7, <1>8 DEF SInv, ScanInv, LevelOf
<1> QED  BY <1>7, <1>10, <1>11, <1>12, <1>13, <1>14 DEF SInv

\* Pop takes the first task of the queue in hand.
LEMMA PopKeepsSInv ==
  ASSUME SInv, Pop
  PROVE  SInv'
<1> DEFINE s == queues[level]
           h == Head(s)
<1>1. /\ loop = "pop" /\ s # <<>> /\ current' = h /\ queues' = [queues EXCEPT ![level] = Tail(s)]
      /\ loop' = "activate" /\ level \in Levels /\ current = NoTask
      /\ UNCHANGED <<withdrawn, tableVars, chanVars, level, ahead, lifeVars>>
  BY DEF Pop, SInv, TypeOK, HandInv
<1>2. s \in Seq(Tasks) /\ Distinct(s)
  BY <1>1 DEF SInv, TypeOK, QueueInv
<1>3. /\ Tail(s) \in Seq(Tasks) /\ Distinct(Tail(s)) /\ h \in Tasks /\ h \in Range(s)
      /\ Range(Tail(s)) = Range(s) \ {h}
  BY <1>1, <1>2, TailDistinct
<1> DEFINE q == Tail(s)
<1>4. queues' \in [Levels -> Seq(Tasks)] /\ QueueInv' /\ Queued' = Queued \ {h} /\ h \in Queued
  <2> HIDE DEF h, q
  <2>1. q \in Seq(Tasks) /\ Distinct(q) /\ h \in QueuedAt(level) /\ Range(q) = QueuedAt(level) \ {h}
    BY <1>3 DEF q, QueuedAt
  <2>2. queues' = [queues EXCEPT ![level] = q]
    BY <1>1 DEF q
  <2> QED  BY <1>1, <2>1, <2>2, QueueShrinks
<1>5. h # NoTask
  BY <1>3, SchedulerAssumption
<1> HIDE DEF h, s
<1>6. /\ UNCHANGED <<taskChan, delivered, activeTasks, status, watcher, sctx>>
      /\ Handed' = Handed \cup {h} /\ Range(taskChan)' = Range(taskChan)
  BY <1>1, <1>5 DEF tableVars, chanVars, lifeVars, Handed
<1>7. Known' \subseteq Known
  BY <1>1, <1>4, <1>6 DEF Known
<1>8. TypeOK'
  BY <1>1, <1>3, <1>4 DEF SInv, TypeOK, tableVars, chanVars, lifeVars
<1>9. PlaceInv'
  <2>1. h \notin Handed /\ h \notin withdrawn
    BY <1>4 DEF SInv, PlaceInv
  <2>2. h \notin Range(taskChan) \cup delivered
    BY <2>1 DEF Handed
  <2> QED  BY <1>1, <1>4, <1>6, <2>1, <2>2 DEF SInv, PlaceInv
<1>10. StatusInv'
  BY <1>1, <1>4, <1>6, <1>7 DEF SInv, StatusInv
<1>11. HandInv'
  BY <1>1, <1>5, <1>6 DEF SInv, HandInv
<1>12. ActiveInv' /\ WatchInv' /\ ScanInv'
  BY <1>1, <1>6 DEF SInv, ActiveInv, WatchInv, ScanInv
<1>13. TrackedIsWatched'
  BY <1>1, <1>6 DEF SInv, TrackedIsWatched
<1> QED  BY <1>4, <1>8, <1>9, <1>10, <1>11, <1>12, <1>13 DEF SInv

\* The send, the rejection, and the receiver.
LEMMA DispatchKeepsSInv ==
  ASSUME SInv, SendTask \/ Reject \/ Receive
  PROVE  SInv'
<1>1. CASE SendTask
  <2> DEFINE t == current
             c == Append(taskChan, t)
  <2>1. /\ loop = "send" /\ taskChan' = c /\ watcher' = [watcher EXCEPT ![t] = "wait"]
        /\ loop' = "top" /\ level' = 0 /\ current' = NoTask /\ ahead' = {} /\ t \in Tasks /\ t # NoTask
        /\ UNCHANGED <<queueVars, activeTasks, status, ctx, closed, delivered, lifeVars>>
    BY <1>1 DEF SendTask, SInv, HandInv, TypeOK
  <2>2. taskChan \in Seq(Tasks) /\ Distinct(taskChan) /\ t \notin Range(taskChan) \cup delivered
    BY DEF SInv, TypeOK, PlaceInv
  <2>3. c \in Seq(Tasks) /\ Distinct(c) /\ Range(c) = Range(taskChan) \cup {t}
    BY <2>1, <2>2, AppendDistinct
  <2> HIDE DEF c
  <2>4. Range(taskChan)' = Range(taskChan) \cup {t} /\ Handed' = Handed
    BY <2>1, <2>3 DEF Handed
  <2>5. UNCHANGED <<queues, withdrawn, sctx>> /\ Queued' = Queued /\ QueueInv'
    <3>1. UNCHANGED <<queues, withdrawn, sctx>>
      BY <2>1 DEF queueVars, lifeVars
    <3>2. \A l \in Levels : QueuedAt(l)' = QueuedAt(l)
      BY <3>1 DEF QueuedAt
    <3> QED  BY <3>1, <3>2 DEF Queued, SInv, QueueInv, LevelOf
  <2>6. Known' \subseteq Known
    BY <2>1, <2>4, <2>5 DEF Known
  <2>7. TypeOK'
    <3>1. watcher' \in [Tasks -> {"none", "wait", "done"}] /\ level' \in Levels
      BY <2>1 DEF SInv, TypeOK, Levels
    <3> QED  BY <2>1, <2>3, <3>1 DEF SInv, TypeOK, queueVars, lifeVars
  <2>8. PlaceInv'
    BY <2>1, <2>2, <2>3, <2>4, <2>5, SchedulerAssumption, PlacesType DEF SInv, PlaceInv, TypeOK
  <2>9. StatusInv'
    BY <2>1, <2>5, <2>6 DEF SInv, StatusInv
  <2>10. HandInv' /\ ActiveInv' /\ ScanInv'
    BY <2>1, <2>5 DEF SInv, HandInv, ActiveInv, ScanInv
  <2>11. WatchInv' /\ TrackedIsWatched'
    BY <2>1, <2>4 DEF SInv, WatchInv, TrackedIsWatched, TypeOK
  <2> QED  BY <2>5, <2>7, <2>8, <2>9, <2>10, <2>11 DEF SInv
<1>2. CASE Reject
  <2> DEFINE t == current
  <2>1. /\ loop = "reject" /\ activeTasks' = [activeTasks EXCEPT ![IdOf[t]] = NoTask]
        /\ loop' = "top" /\ level' = 0 /\ current' = NoTask /\ ahead' = {} /\ t \in Tasks /\ t # NoTask
        /\ UNCHANGED <<queueVars, status, ctx, watcher, chanVars, lifeVars>>
    BY <1>2 DEF Reject, SInv, HandInv, TypeOK
  <2>2. UNCHANGED <<queues, withdrawn, sctx, taskChan, delivered>> /\ Queued' = Queued /\ QueueInv'
    <3>1. UNCHANGED <<queues, withdrawn, sctx, taskChan, delivered>>
      BY <2>1 DEF queueVars, lifeVars, chanVars
    <3>2. \A l \in Levels : QueuedAt(l)' = QueuedAt(l)
      BY <3>1 DEF QueuedAt
    <3> QED  BY <3>1, <3>2 DEF Queued, SInv, QueueInv, LevelOf
  <2>3. Range(taskChan)' = Range(taskChan) /\ Handed' = Handed \ {t}
    BY <2>1, <2>2 DEF Handed, SInv, PlaceInv
  <2>4. Known' \subseteq Known
    BY <2>1, <2>2, <2>3 DEF Known
  <2>5. /\ activeTasks' \in [TaskIds -> Tasks \cup {NoTask}]
        /\ \A id \in TaskIds : activeTasks'[id] # NoTask => activeTasks'[id] = activeTasks[id] /\ activeTasks[id] # t
    BY <2>1 DEF SInv, TypeOK, ActiveInv
  <2>6. TypeOK'
    BY <2>1, <2>5 DEF SInv, TypeOK, queueVars, chanVars, lifeVars, Levels
  <2>7. PlaceInv'
    BY <2>1, <2>2, <2>3, SchedulerAssumption, PlacesType DEF SInv, PlaceInv, TypeOK
  <2>8. StatusInv'
    BY <2>1, <2>2, <2>4 DEF SInv, StatusInv
  <2>9. HandInv' /\ WatchInv' /\ ScanInv'
    BY <2>1, <2>2, <2>3 DEF SInv, HandInv, WatchInv, ScanInv
  <2>10. ActiveInv' /\ TrackedIsWatched'
    BY <2>1, <2>5 DEF SInv, ActiveInv, TrackedIsWatched
  <2> QED  BY <2>2, <2>6, <2>7, <2>8, <2>9, <2>10 DEF SInv
<1>3. CASE Receive
  <2> DEFINE h == Head(taskChan)
  <2>1. /\ taskChan # <<>> /\ taskChan' = Tail(taskChan) /\ delivered' = delivered \cup {h}
        /\ UNCHANGED <<queueVars, tableVars, closed, loopVars, lifeVars>>
    BY <1>3 DEF Receive
  <2>2. /\ Tail(taskChan) \in Seq(Tasks) /\ Distinct(Tail(taskChan)) /\ h \in Tasks /\ h \in Range(taskChan)
        /\ Range(Tail(taskChan)) = Range(taskChan) \ {h}
    BY <2>1, TailDistinct DEF SInv, TypeOK, PlaceInv
  <2> HIDE DEF h
  <2>3. /\ UNCHANGED <<queues, withdrawn, sctx, current, ahead, loop, level, activeTasks, status, watcher>>
        /\ Queued' = Queued /\ QueueInv'
    <3>1. UNCHANGED <<queues, withdrawn, sctx, current, ahead, loop, level, activeTasks, status, watcher>>
      BY <2>1 DEF queueVars, lifeVars, loopVars, tableVars
    <3>2. \A l \in Levels : QueuedAt(l)' = QueuedAt(l)
      BY <3>1 DEF QueuedAt
    <3> QED  BY <3>1, <3>2 DEF Queued, SInv, QueueInv, LevelOf
  <2>4. Range(taskChan)' = Range(taskChan) \ {h} /\ Handed' = Handed
    BY <2>1, <2>2, <2>3 DEF Handed
  <2>5. Known' = Known
    BY <2>3, <2>4 DEF Known
  <2>6. TypeOK'
    BY <2>1, <2>2 DEF SInv, TypeOK, queueVars, lifeVars, loopVars, tableVars
  <2>7. PlaceInv'
    BY <2>1, <2>2, <2>3, <2>4 DEF SInv, PlaceInv
  <2>8. StatusInv' /\ ScanInv'
    BY <2>3, <2>5 DEF SInv, StatusInv, ScanInv, LevelOf
  <2>9. HandInv' /\ ActiveInv' /\ TrackedIsWatched'
    BY <2>3 DEF SInv, HandInv, ActiveInv, TrackedIsWatched
  <2>10. WatchInv'
    BY <2>1, <2>3, <2>4 DEF SInv, WatchInv
  <2> QED  BY <2>3, <2>6, <2>7, <2>8, <2>9, <2>10 DEF SInv
<1> QED  BY <1>1, <1>2, <1>3

\* A new scan looks at every queue.
LEMMA ScanBeginKeepsSInv ==
  ASSUME SInv, ScanBegin
  PROVE  SInv'
<1>1. /\ loop = "top" /\ sctx = "live" /\ loop' = "scan" /\ level' = 0 /\ ahead' = Queued
      /\ UNCHANGED <<queueVars, tableVars, chanVars, current, lifeVars>>
  BY DEF ScanBegin
<1>2. UNCHANGED <<queues, withdrawn, taskChan, delivered, current, activeTasks, status, watcher, sctx>>
  BY <1>1 DEF queueVars, tableVars, chanVars, lifeVars
<1>3. \A l \in Levels : QueuedAt(l)' = QueuedAt(l)
  BY <1>2 DEF QueuedAt
<1>4. Queued' = Queued /\ Handed' = Handed /\ Range(taskChan)' = Range(taskChan)
  BY <1>2, <1>3 DEF Queued, Handed
<1>5. QueueInv' /\ PlaceInv'
  BY <1>2, <1>3, <1>4 DEF SInv, QueueInv, PlaceInv, LevelOf
<1>6. Known' \subseteq Known
  BY <1>1, <1>2, <1>4 DEF Known
<1>7. ahead' \subseteq Tasks
  BY <1>1, PlacesType DEF SInv
<1>8. TypeOK'
  BY <1>1, <1>7 DEF SInv, TypeOK, Levels, queueVars, tableVars, chanVars, lifeVars
<1>9. ScanInv'
  <2> SUFFICES ASSUME NEW t \in ahead', LevelOf(t) < 0 PROVE FALSE
    BY <1>1 DEF ScanInv, LevelOf
  <2>1. LevelOf(t) \in 0..3
    BY <1>7, LevelOfType DEF Levels
  <2> QED  BY <2>1
<1>10. HandInv' /\ ActiveInv' /\ WatchInv' /\ TrackedIsWatched'
  BY <1>1, <1>2, <1>4 DEF SInv, HandInv, ActiveInv, WatchInv, TrackedIsWatched
<1>11. StatusInv'
  BY <1>1, <1>2, <1>4, <1>6 DEF SInv, StatusInv
<1> QED  BY <1>5, <1>8, <1>9, <1>10, <1>11 DEF SInv

\* Every step of the scheduler, its callers and its watchers preserves the invariant.
LEMMA SInvStep == SInv /\ [Next]_vars => SInv'
<1> SUFFICES ASSUME SInv, [Next]_vars PROVE SInv'
  OBVIOUS
<1>1. CASE Start \/ Stopper \/ LoopExit \/ ScanEmpty \/ ScanFound \/ SendPanics
  BY <1>1, LifeKeepsSInv
<1>2. ASSUME NEW id \in TaskIds, CancelActive(id) \/ PauseTask(id) \/ ResumeTask(id) PROVE SInv'
  BY <1>2, TableKeepsSInv
<1>3. ASSUME NEW t \in Tasks, Watcher(t) PROVE SInv'
  BY <1>3, TableKeepsSInv DEF Watcher
<1>4. ASSUME NEW id \in TaskIds, CancelQueued(id) PROVE SInv'
  BY <1>4, CancelKeepsSInv
<1>5. ASSUME NEW t \in Tasks, ScheduleTask(t) PROVE SInv'
  BY <1>5, ScheduleKeepsSInv
<1>6. CASE Activate \/ MakeContext \/ SendRejected
  BY <1>6, ExecuteKeepsSInv
<1>7. CASE SendTask \/ Reject \/ Receive
  BY <1>7, DispatchKeepsSInv
<1>8. CASE Pop
  BY <1>8, PopKeepsSInv
<1>9. CASE ScanBegin
  BY <1>9, ScanBeginKeepsSInv
<1>10. CASE UNCHANGED vars
  <2>1. /\ UNCHANGED <<queues, taskChan, delivered, withdrawn, current, activeTasks, status, watcher>>
        /\ UNCHANGED <<running, closed, crashed, sctx, ctx, loop, level, stopper, ahead>>
    BY <1>10 DEF vars, queueVars, tableVars, chanVars, loopVars, lifeVars
  <2>2. /\ Queued' = Queued /\ Handed' = Handed /\ Known' \subseteq Known
        /\ Range(taskChan)' = Range(taskChan) /\ QueueInv' /\ PlaceInv'
    BY <2>1, PlacesKept
  <2>3. TypeOK'
    BY <2>1 DEF SInv, TypeOK
  <2>4. HandInv' /\ ActiveInv' /\ WatchInv' /\ TrackedIsWatched'
    BY <2>1, <2>2 DEF SInv, HandInv, ActiveInv, WatchInv, TrackedIsWatched
  <2>5. StatusInv' /\ ScanInv'
    BY <2>1, <2>2 DEF SInv, StatusInv, ScanInv, LevelOf
  <2> QED  BY <2>2, <2>3, <2>4, <2>5 DEF SInv
<1> QED
  BY <1>1, <1>2, <1>3, <1>4, <1>5, <1>6, <1>7, <1>8, <1>9, <1>10 DEF Next, Caller, Loop

-----------------------------------------------------------------------------
(* Theorems *)

\* The scheduler is type-correct: every task ends in one of the four queues, whatever its priority.
THEOREM SchedulerTypeCorrect == Spec => []TypeOK
<1>1. SInv => TypeOK
  BY DEF SInv
<1> QED  BY SInvInit, SInvStep, <1>1, PTL DEF Spec

\* Every entry of the active table is in the scheduling goroutine's hands or has a watcher that
\* will release it, even when tasks share an ID.
THEOREM EntriesAreWatched == Spec => []TrackedIsWatched
<1>1. SInv => TrackedIsWatched
  BY DEF SInv
<1> QED  BY SInvInit, SInvStep, <1>1, PTL DEF Spec

\* A task CancelTask took out of a queue is never dispatched, whenever the scheduling goroutine
\* read the size of that queue.
THEOREM CancellationIsFinal == Spec => []WithdrawnIsNotDispatched
<1>1. SInv => WithdrawnIsNotDispatched
  BY SchedulerAssumption DEF SInv, TypeOK, PlaceInv, Handed, WithdrawnIsNotDispatched
<1> QED  BY SInvInit, SInvStep, <1>1, PTL DEF Spec

\* getNextTask pops no task while one of a higher priority, queued when the scan began, waits.
THEOREM PriorityIsKept == Spec => NoOvertaking
<1>1. SInv => (Pop => \A t \in ahead : LevelOf(t) < level => t \notin Queued)
  BY DEF SInv, ScanInv, Pop
<1> QED  BY SInvInit, SInvStep, <1>1, PTL DEF Spec, NoOvertaking

\* What a step can do to the status of a cancelled task when no two tasks share an ID.
LEMMA StatusStep ==
  ASSUME SInv, Next, \A t, u \in Tasks : IdOf[t] = IdOf[u] => t = u,
         NEW t \in Tasks, status[t] = "Cancelled", status'[t] # "Cancelled"
  PROVE  SendRejected
<1>0. status \in [Tasks -> {"new", "Pending", "Running", "Paused", "Failed", "Cancelled"}]
  BY DEF SInv, TypeOK
<1>1. ASSUME NEW id \in TaskIds, CancelActive(id) \/ PauseTask(id) \/ ResumeTask(id) PROVE FALSE
  <2>1. activeTasks[id] # t
    BY <1>1, SchedulerAssumption DEF SInv, ActiveInv, TypeOK
  <2> QED  BY <1>0, <1>1, <2>1 DEF CancelActive, PauseTask, ResumeTask
<1>2. ASSUME NEW u \in Tasks, Watcher(u) PROVE FALSE
  <2>1. CASE Deadline(u)
    BY <2>1 DEF Deadline
  <2>2. CASE WatcherFires(u)
    <3>1. activeTasks[IdOf[u]] # NoTask /\ u = t
      BY <1>0, <2>2 DEF WatcherFires
    <3>2. IdOf[u] \in TaskIds /\ activeTasks[IdOf[u]] \in Tasks
      BY <3>1, SchedulerAssumption DEF SInv, TypeOK
    <3>3. activeTasks[IdOf[u]] = t
      BY <3>1, <3>2 DEF SInv, ActiveInv
    <3> QED  BY <3>1, <3>2, <3>3 DEF SInv, ActiveInv
  <2> QED  BY <1>2, <2>1, <2>2 DEF Watcher
<1>3. ASSUME NEW u \in Tasks, ScheduleTask(u) PROVE FALSE
  BY <1>0, <1>3 DEF ScheduleTask
<1>4. ASSUME Activate PROVE FALSE
  <2>1. current # t
    BY <1>4 DEF Activate, SInv, StatusInv
  <2> QED  BY <1>0, <1>4, <2>1 DEF Activate
<1>5. ASSUME NEW id \in TaskIds, CancelQueued(id) PROVE FALSE
  BY <1>5 DEF CancelQueued, tableVars
<1>6. \/ Start \/ Stopper \/ Receive \/ LoopExit \/ ScanBegin \/ ScanEmpty \/ ScanFound \/ Pop
      \/ MakeContext \/ SendTask \/ SendPanics \/ Reject \/ SendRejected
  BY <1>1, <1>2, <1>3, <1>4, <1>5 DEF Next, Caller, Loop
<1> QED
  BY <1>6 DEF Start, Stopper, StopBegin, StopClose, StopReturn, Receive, LoopExit, ScanBegin, ScanEmpty,
              ScanFound, Pop, MakeContext, SendTask, SendPanics, Reject, tableVars

\* A cancelled task stays cancelled unless the full channel rejects it, provided that no two
\* tasks share an ID.  With a shared ID the watcher of a cancelled and expired task finds the
\* other task in the table and marks its own as failed.
THEOREM CancellationStays ==
  ASSUME \A t, u \in Tasks : IdOf[t] = IdOf[u] => t = u
  PROVE  Spec => CancelledStays
<1>1. SInv /\ [Next]_vars =>
        [\A t \in Tasks : status[t] = "Cancelled" /\ status'[t] # "Cancelled" => SendRejected]_vars
  BY StatusStep
<1> QED  BY SInvInit, SInvStep, <1>1, PTL DEF Spec, CancelledStays

-----------------------------------------------------------------------------
(* Conservation *)

\* A sequence without duplicates has an element in at most one place.
LEMMA OnePlace ==
  ASSUME NEW S, NEW q \in Seq(S), Distinct(q), NEW t
  PROVE  LET I == {i \in DOMAIN q : q[i] = t} IN
         IF t \in Range(q) THEN \E i \in DOMAIN q : I = {i} ELSE I = {}
<1>1. DOMAIN q = 1..Len(q) /\ (t \in Range(q) <=> \E i \in 1..Len(q) : q[i] = t)
  BY RangeMember
<1> QED  BY <1>1 DEF Distinct

\* A task has at most one place in the four queues.
LEMMA OneQueuePlace ==
  ASSUME SInv, NEW t
  PROVE  LET P == {p \in UNION {{l} \X DOMAIN queues[l] : l \in Levels} : queues[p[1]][p[2]] = t} IN
         IF t \in Queued THEN \E p : P = {p} ELSE P = {}
<1> DEFINE P == {p \in UNION {{l} \X DOMAIN queues[l] : l \in Levels} : queues[p[1]][p[2]] = t}
           I(l) == {i \in DOMAIN queues[l] : queues[l][i] = t}
<1>1. \A p : p \in P <=> \E l \in Levels : \E i \in I(l) : p = <<l, i>>
  OBVIOUS
<1>2. ASSUME NEW l \in Levels
      PROVE  IF t \in QueuedAt(l) THEN \E i \in DOMAIN queues[l] : I(l) = {i} ELSE I(l) = {}
  BY OnePlace DEF SInv, TypeOK, QueueInv, QueuedAt
<1> HIDE DEF P, I
<1>3. CASE t \in Queued
  <2>1. PICK l \in Levels : t \in QueuedAt(l)
    BY <1>3 DEF Queued
  <2>2. \A k \in Levels \ {l} : t \notin QueuedAt(k)
    BY <2>1 DEF SInv, QueueInv
  <2>3. PICK i : I(l) = {i}
    BY <1>2, <2>1
  <2>4. \A k \in Levels \ {l} : I(k) = {}
    BY <1>2, <2>2
  <2>5. P = {<<l, i>>}
    BY <1>1, <2>3, <2>4
  <2> QED  BY <1>3, <2>5 DEF P
<1>4. CASE t \notin Queued
  <2>1. \A l \in Levels : t \notin QueuedAt(l)
    BY <1>4 DEF Queued
  <2>2. P = {}
    BY <1>1, <1>2, <2>1
  <2> QED  BY <1>4, <2>2 DEF P
<1> QED  BY <1>3, <1>4

\* No task is lost or duplicated between ScheduleTask and its receiver, whatever is cancelled
\* or rejected on the way.
THEOREM NoTaskLost == Spec => []Conservation
<1>1. ASSUME SInv, NEW t \in Tasks
      PROVE  /\ Waiting(t) <= 1
             /\ status[t] = "Pending" /\ t \notin withdrawn => Waiting(t) = 1
  <2> DEFINE P == {p \in UNION {{l} \X DOMAIN queues[l] : l \in Levels} : queues[p[1]][p[2]] = t}
             I == {i \in DOMAIN taskChan : taskChan[i] = t}
  <2>1. Cardinality(P) = IF t \in Queued THEN 1 ELSE 0
    <3>1. IF t \in Queued THEN \E p : P = {p} ELSE P = {}
      BY <1>1, OneQueuePlace
    <3> HIDE DEF P
    <3> QED  BY <3>1, FS_Singleton, FS_EmptySet
  <2>2. Cardinality(I) = IF t \in Range(taskChan) THEN 1 ELSE 0
    <3>1. IF t \in Range(taskChan) THEN \E i : I = {i} ELSE I = {}
      <4>1. taskChan \in Seq(Tasks) /\ Distinct(taskChan)
        BY <1>1 DEF SInv, TypeOK, PlaceInv
      <4>2. LET J == {i \in DOMAIN taskChan : taskChan[i] = t} IN
            IF t \in Range(taskChan) THEN \E i \in DOMAIN taskChan : J = {i} ELSE J = {}
        BY <4>1, OnePlace
      <4> QED  BY <4>2
    <3> HIDE DEF I
    <3> QED  BY <3>1, FS_Singleton, FS_EmptySet
  <2>3. Waiting(t) = Cardinality(P) + Cardinality(I)
                     + (IF current = t THEN 1 ELSE 0) + (IF t \in delivered THEN 1 ELSE 0)
    BY DEF Waiting
  <2> HIDE DEF P, I
  <2>4. t # NoTask
    BY SchedulerAssumption
  <2>5. /\ t \in Queued => t \notin Range(taskChan) /\ current # t /\ t \notin delivered
        /\ t \in Range(taskChan) => current # t /\ t \notin delivered
        /\ current = t => t \notin delivered
    BY <1>1, <2>4 DEF SInv, PlaceInv, Handed
  <2>6. status[t] = "Pending" /\ t \notin withdrawn => t \in Queued \/ current = t
    BY <1>1 DEF SInv, StatusInv
  <2> QED  BY <2>1, <2>2, <2>3, <2>5, <2>6
<1>2. SInv => Conservation
  BY <1>1 DEF Conservation
<1> QED  BY SInvInit, SInvStep, <1>2, PTL DEF Spec
=============================================================================
