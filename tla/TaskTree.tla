------------------------------- MODULE TaskTree -------------------------------
(***************************************************************************)
(* core/tasknode_decomposer.go: the decomposition of a task's tree of      *)
(* nodes.  The only assertion left open here is the one every node of its  *)
(* kind meets, on the duration of a delay; other parameters have the type  *)
(* asserted.                                                               *)
(***************************************************************************)
EXTENDS TaskNodeDecomposer, SequencesExt

\* decomposer.devices: only SetDevice adds to it, and nothing calls SetDevice.
KnownDevices == {}

\* One command, named after the node.
Single(node, device) ==
    Commands(<<[id |-> [of |-> node.id, part |-> node.type, n |-> 0], device |-> device, type |-> node.type]>>)

DecomposeMotion(node) == Commands(PerAxis(node.type, node.axes))

\* decomposeIONode, decomposeMotorNode, decomposeMotorStatusNode: the device must be known.
DecomposeDevice(node) == IF node.device \in KnownDevices THEN Single(node, node.device) ELSE Failure

\* The duration is asserted to be a time.Duration, whatever the parameters hold.
DecomposeDelay(node) == IF node.isDuration THEN Single(node, "system") ELSE Panic

DecomposeCondition(node) == Single(node, node.device)

DecomposeLeaf(node) ==
    CASE node.type \in Motions -> DecomposeMotion(node)
      [] node.type \in {"IO", "MotorControl", "MotorStatus"} -> DecomposeDevice(node)
      [] node.type = "Delay" -> DecomposeDelay(node)
      [] node.type = "Condition" -> DecomposeCondition(node)
      [] OTHER -> Failure

\* decomposeTaskNode and decomposeSequenceNode: the commands of the children in order, a
\* Parallel node like a Sequence; the first child that fails decides.
RECURSIVE DecomposeNode(_)
DecomposeNode(node) ==
    IF node.type \notin {"Sequence", "Parallel"} THEN DecomposeLeaf(node)
    ELSE FoldLeft(LAMBDA made, child :
                      LET r == DecomposeNode(child)
                      IN  IF made.kind # "commands" THEN made
                          ELSE IF r.kind # "commands" THEN r
                          ELSE Commands(made.commands \o r.commands),
                  Commands(<<>>), node.children)
=============================================================================
