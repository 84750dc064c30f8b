----------------------------- MODULE TaskTrigger -----------------------------
(***************************************************************************)
(* core/trigger.go: the sources of tasks, the goroutine that asks them     *)
(* every 10 ms, the timer event that asks them too, and the task channel.  *)
(***************************************************************************)
EXTENDS TaskNodeDecomposer

CONSTANTS Shapes,     \* the tasks a source may return, without their ID
          ChanSize,   \* the capacity of taskChan (100)
          MaxTasks    \* bound on the tasks made

ASSUME TriggerAssumption == ChanSize \in Nat \ {0} /\ MaxTasks \in Nat

\* A task whose type was not set.
NoType == ""

\* A source returns a Task: a type, names of axes, and perhaps a tree, whose decomposition is a
\* list of commands or an error.
ASSUME ShapeAssumption ==
    \A shape \in Shapes :
        /\ shape.type \in CommandType \cup {NoType} /\ shape.axes \in Seq(STRING)
        /\ shape.root = <<>> \/ DecomposeTree(shape.root[1]) \in Result

VARIABLES enabled,    \* the one source is there and enabled
          taskChan,   \* indexes into tasks
          trig,       \* running, cancelled, closed (taskChan) and the goroutine's place
          tasks,      \* every task made: shape, ID (0 is the empty one), origin and fate
          crash       \* how the process panicked, "no" if it did not

trigVars == <<enabled, taskChan, trig, tasks, crash>>

Task == [type : CommandType \cup {NoType}, axes : Seq(STRING), root : {shape.root : shape \in Shapes} \cup {<<>>},
         origin : {"trigger", "business"}, id : 0..MaxTasks,
         at : {"chan", "scheduler", "done", "dropped", "refused"}]

TrigTypeOK ==
    /\ enabled \in BOOLEAN
    /\ taskChan \in Seq(1..Len(tasks)) /\ Len(taskChan) <= ChanSize
    /\ trig \in [running : BOOLEAN, cancelled : BOOLEAN, closed : BOOLEAN,
                 run : {"off", "loop", "check", "ended"}]
    /\ tasks \in Seq(Task) /\ Len(tasks) <= MaxTasks
    /\ \A t \in 1..Len(tasks) : tasks[t].id \in {0, t}
    /\ crash \in {"no", "send", "close", "decompose"}

TrigInit ==
    /\ enabled = FALSE /\ taskChan = <<>> /\ tasks = <<>> /\ crash = "no"
    /\ trig = [running |-> FALSE, cancelled |-> FALSE, closed |-> FALSE, run |-> "off"]

\* AddTrigger and EnableTrigger, RemoveTrigger and DisableTrigger; a wrong one is refused.
ChangeTrigger == enabled' = ~enabled /\ UNCHANGED <<taskChan, trig, tasks, crash>>

\* Start.
TrigStart == /\ ~trig.running
             /\ trig' = [trig EXCEPT !.running = TRUE, !.run = "loop"]
             /\ UNCHANGED <<enabled, taskChan, tasks, crash>>

\* Bug for a mutant: Stop does not look at running.
TrigStopUnchecked ==
    /\ trig' = [trig EXCEPT !.cancelled = TRUE, !.closed = TRUE]
    /\ crash' = IF trig.closed THEN "close" ELSE crash
    /\ UNCHANGED <<enabled, taskChan, tasks>>

\* Stop, up to its wait: refused unless running; cancels, then closes taskChan, where closing a
\* closed channel would panic.
TrigStop ==
    /\ IF trig.running
       THEN /\ trig' = [trig EXCEPT !.cancelled = TRUE, !.closed = TRUE]
            /\ crash' = IF trig.closed THEN "close" ELSE crash
       ELSE UNCHANGED <<trig, crash>>
    /\ UNCHANGED <<enabled, taskChan, tasks>>

\* ... and after wg.Wait.
TrigStopped == /\ trig.run # "loop" /\ trig.run # "check"
               /\ trig' = [trig EXCEPT !.running = FALSE]
               /\ UNCHANGED <<enabled, taskChan, tasks, crash>>

\* The select of checkTriggers and checkAndTriggerTriggers: send, drop when full, panic when closed.
Offer(shape, named) ==
    LET t == Len(tasks) + 1 IN
    /\ Len(tasks) < MaxTasks
    /\ crash' = IF trig.closed THEN "send" ELSE crash
    /\ LET sent == ~trig.closed /\ Len(taskChan) < ChanSize IN
       /\ taskChan' = IF sent THEN Append(taskChan, t) ELSE taskChan
       /\ tasks' = Append(tasks, [type |-> shape.type, axes |-> shape.axes, root |-> shape.root, origin |-> "trigger",
                                  id |-> IF named THEN t ELSE 0, at |-> IF sent THEN "chan" ELSE "dropped"])

\* ValidateTrigger: a type, at least one axis, all of them configured, target and velocity in range.
ValidateTrigger(shape) ==
    /\ shape.type # NoType /\ shape.axes # <<>> /\ shape.inRange
    /\ \A i \in 1..Len(shape.axes) : shape.axes[i] \in Axes

\* Bug for a mutant: the goroutine does not look at the context.
RunLoopDeaf ==
    /\ trig.run = "loop" /\ (enabled \/ trig.cancelled)
    /\ trig' = [trig EXCEPT !.run = "check"]
    /\ UNCHANGED <<enabled, taskChan, tasks, crash>>

\* run: looks at the context, ...  (A round with no enabled source changes nothing and is left out.)
RunLoop ==
    /\ trig.run = "loop" /\ (enabled \/ trig.cancelled)
    /\ trig' = [trig EXCEPT !.run = IF trig.cancelled THEN "ended" ELSE "check"]
    /\ UNCHANGED <<enabled, taskChan, tasks, crash>>

\* ... then checkTriggers asks an enabled source; what it returns is validated and named.
RunCheck ==
    /\ trig.run = "check"
    /\ trig' = [trig EXCEPT !.run = "loop"]
    /\ \/ UNCHANGED <<taskChan, tasks, crash>>   \* nothing enabled, nil, or not valid
       \/ enabled /\ \E shape \in Shapes : ValidateTrigger(shape) /\ Offer(shape, TRUE)
    /\ UNCHANGED enabled

\* checkAndTriggerTriggers, on a timer event: what the source returns is neither validated nor
\* named.  shouldTrigger lets it pass when the last task is a second old.
TimerCheck ==
    /\ \/ UNCHANGED <<taskChan, tasks, crash>>
       \/ enabled /\ \E shape \in Shapes : Offer(shape, FALSE)
    /\ UNCHANGED <<enabled, trig>>
=============================================================================
