---------------------------- MODULE CommandTable ----------------------------
(***************************************************************************)
(* What the execution queue (internal/core/queue.go) promises the code that  *)
(* uses it, without goroutines, locks, channels, timers or pointers: one     *)
(* slot per command ID, in which a command is accepted while there is room,  *)
(* moves from Pending to Sent to Executing, may be settled at any moment by  *)
(* a result or a timeout, and leaves the table when it is withdrawn or       *)
(* reclaimed.                                                                *)
(***************************************************************************)
EXTENDS Naturals, FiniteSets

CONSTANTS Ids,      \* command IDs
          MaxSize   \* ExecutionQueue.maxSize

VARIABLE slot       \* slot[id]: the status of the command stored under id

Terminal == {"Completed", "Failed"}
Status == {"Pending", "Sent", "Executing"} \cup Terminal

\* The IDs with a stored command: the keys of the Go map.
Present == {id \in Ids : slot[id] # "absent"}

TypeOK == slot \in [Ids -> Status \cup {"absent"}]

Init == slot = [id \in Ids |-> "absent"]

\* A new command replaces whatever was stored under its ID.
Accept(id) ==
  /\ Cardinality(Present) < MaxSize
  /\ slot' = [slot EXCEPT ![id] = "Pending"]

Send(id) ==
  /\ slot[id] = "Pending"
  /\ slot' = [slot EXCEPT ![id] = "Sent"]

Begin(id) ==
  /\ slot[id] = "Sent"
  /\ slot' = [slot EXCEPT ![id] = "Executing"]

\* A result or a timeout: in this code a later one overrides an earlier one.
Settle(id, s) ==
  /\ slot[id] # "absent"
  /\ slot' = [slot EXCEPT ![id] = s]

Withdraw(S) == slot' = [id \in Ids |-> IF id \in S THEN "absent" ELSE slot[id]]

Next ==
  \/ \E id \in Ids : \/ Accept(id)
                     \/ Send(id)
                     \/ Begin(id)
                     \/ \E s \in Terminal : Settle(id, s)
  \/ \E S \in SUBSET Ids : Withdraw(S)

Spec == Init /\ [][Next]_slot

\* The table never holds more than MaxSize commands.
WithinCapacity == IsFiniteSet(Present) /\ Cardinality(Present) <= MaxSize
=============================================================================
