-------------------------- MODULE TaskNodeDecomposer --------------------------
(***************************************************************************)
(* core/tasknode_decomposer.go: what DecomposeTask makes of a task.  A     *)
(* result is Commands(s), Failure (the error is logged and the task is     *)
(* given up) or Panic (a type assertion on a parameter fails).             *)
(***************************************************************************)
EXTENDS Naturals, Sequences

CONSTANTS Axes,        \* config.Axes: the configured axes
          AxisDevice,  \* the DeviceID of each
          DecomposeTree(_)   \* what decomposeTaskNode makes of the root of a tree: TaskTree

ASSUME AxesAssumption == Axes # {} /\ AxisDevice \in [Axes -> STRING]

Motions == {"MoveTo", "MoveRelative", "Home", "Stop", "Jog"}
CommandType == Motions \cup {"IO", "MotorControl", "MotorStatus", "Delay", "Sequence", "Parallel", "Condition"}

Commands(s) == [kind |-> "commands", commands |-> s]
Failure == [kind |-> "error", commands |-> <<>>]
Panic == [kind |-> "panic", commands |-> <<>>]

NoId == [of |-> 0, part |-> "none", n |-> 0]

\* A MotionCommand, and what the functions of this file return.
CommandId == [of : Nat, part : CommandType \cup {"none", "cmd"}, n : Nat]
Command == [id : CommandId, device : STRING, type : CommandType]
Result == [kind : {"commands", "error", "panic"}, commands : Seq(Command)]

\* decomposeMoveTo, -MoveRelative, -Home, -Stop, -Jog: a loop over the axes named that appends
\* one command, without an ID, for the device of each that is configured and skips the others.
PerAxis(type, axes) ==
    LET made[i \in 0..Len(axes)] ==
            IF i = 0 THEN <<>>
            ELSE IF axes[i] \in Axes
            THEN Append(made[i - 1], [id |-> NoId, device |-> AxisDevice[axes[i]], type |-> type])
            ELSE made[i - 1]
    IN  made[Len(axes)]

\* Bug for a mutant: every command of a task gets the ID of its first.
DecomposeLegacySameId(task) ==
    IF task.type \in Motions
    THEN Commands([i \in 1..Len(PerAxis(task.type, task.axes)) |->
             [PerAxis(task.type, task.axes)[i] EXCEPT !.id = [of |-> task.id, part |-> "cmd", n |-> 0]]])
    ELSE Failure

\* decomposeLegacyTask: a task without a tree; the command's ID is the task's and its index.
DecomposeLegacy(task) ==
    LET made == PerAxis(task.type, task.axes)
    IN  IF task.type \in Motions
        THEN Commands([i \in 1..Len(made) |->
                 [made[i] EXCEPT !.id = [of |-> task.id, part |-> "cmd", n |-> i - 1]]])
        ELSE Failure

\* DecomposeTask: a task with a tree is decomposed node by node, see TaskTree.
DecomposeTask(task) ==
    IF task.root = <<>> THEN DecomposeLegacy(task) ELSE DecomposeTree(task.root[1])
=============================================================================
