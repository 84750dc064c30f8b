------------------------------ MODULE MCControl ------------------------------
EXTENDS Control, TaskTree

MCAxisDevice == [x |-> "d1", y |-> "d2"]
MCAxes == DOMAIN MCAxisDevice

Node(type, axes) == [id |-> 1, type |-> type, axes |-> axes, device |-> "d1", isDuration |-> FALSE, children |-> <<>>]
Inner(type, children) == [Node(type, <<>>) EXCEPT !.children = children]
Shape(type, axes, root) == [type |-> type, axes |-> axes, root |-> root, inRange |-> TRUE]

\* A move of both axes, and a tree that only passes unvalidated, whose delay is not a Duration.
MCShapes == {Shape("MoveTo", <<"x", "y">>, <<>>),
             [Shape("Sequence", <<"nowhere">>,
                    <<Inner("Sequence", <<Node("Home", <<"x">>), Node("Delay", <<>>)>>)>>) EXCEPT !.inRange = FALSE]}

(* DecomposeNode against a definition without recursion, on every tree of two levels. *)

Leaves == {Node("Home", <<"nowhere", "x", "y">>), Node("Condition", <<>>), Node("IO", <<>>), Node("Delay", <<>>)}
UpTo2(S) == {<<>>} \cup {<<a>> : a \in S} \cup {<<a, b>> : a, b \in S}
Inners == {Inner("Parallel", c) : c \in UpTo2(Leaves)}
Trees == {Inner("Sequence", c) : c \in UpTo2(Leaves \cup Inners)}

LeavesOf(tree) ==
    FlattenSeq([i \in DOMAIN tree.children |-> IF tree.children[i].type = "Parallel" THEN tree.children[i].children
                                               ELSE <<tree.children[i]>>])

\* The commands of the leaves from left to right, or the outcome of the first leaf that has none.
Reference(tree) ==
    LET results == [i \in DOMAIN LeavesOf(tree) |-> DecomposeLeaf(LeavesOf(tree)[i])]
        bad == {i \in DOMAIN results : results[i].kind # "commands"}
    IN  IF bad = {} THEN Commands(FlattenSeq([i \in DOMAIN results |-> results[i].commands]))
        ELSE results[CHOOSE i \in bad : \A j \in bad : i <= j]

ASSUME TreesFlatten == \A tree \in Trees : DecomposeNode(tree) = Reference(tree)
=============================================================================
