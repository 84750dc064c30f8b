------------------------ MODULE ExecutionQueueProofs ------------------------
(***************************************************************************)
(* Proofs about the execution queue for any number of IDs, clients and       *)
(* pushes and any capacities: it is type-correct, the entry under an ID is   *)
(* a stored command with that ID, the queue implements CommandTable, so that *)
(* it never holds more than MaxSize commands, and every stored command is    *)
(* listed under its task.                                                    *)
(***************************************************************************)
EXTENDS ExecutionQueue, SequenceLemmas, FiniteSetTheorems

\* A caller inside Push holds an object it has allocated.
ArgInv ==
  \A c \in Clients : pc[c] \in {"pushLock", "pushIndex", "pushRelock"} => arg[c] \in 1..pushed

\* handleCompletions holds an object while it cleans up.
CleaningInv == cleaner \in {"lock", "index"} => cleaning \in Obj

\* The entry under an ID is an allocated object with that ID.
EntryInv ==
  \A id \in Ids :
    commands[id] # Nil =>
      /\ commands[id] \in 1..pushed
      /\ idOf[commands[id]] = id
      /\ status[commands[id]] # "new"

\* The inductive invariant.  EntryInv is what makes the by-ID methods act on one slot of the
\* table: an object is stored under its own ID only.
QInv == TypeOK /\ ArgInv /\ CleaningInv /\ EntryInv

-----------------------------------------------------------------------------
(* Types of the helpers *)

\* Every ID belongs to a task (extractTaskID).
LEMMA GroupType == \A id \in Ids : extractTaskID(id) \in Groups
  BY DEF Groups

\* There is a task to stand for "no removal in progress".
LEMMA AnyGroupType == AnyGroup \in Groups
<1>1. Groups # {}
  BY QueueAssumption DEF Groups
<1> QED  BY <1>1 DEF AnyGroup

\* MarkCommandCompleted keeps the statuses and the completion channel well-typed, panics at
\* most, and never takes a command back to its state before Push.
LEMMA CompletedType ==
  ASSUME QInv, NEW id \in Ids, NEW s \in Terminal, MarkCommandCompleted(id, s)
  PROVE  /\ status' \in [Obj -> Status]
         /\ \A p \in Obj : status[p] # "new" => status'[p] # "new"
         /\ completeChan' \in Seq(Obj) /\ crashed' \in BOOLEAN
<1> USE DEF QInv, TypeOK, Nil
<1>1. CASE commands[id] = Nil /\ UNCHANGED <<status, completeChan, crashed>>
  BY <1>1
<1>2. CASE commands[id] # Nil /\ status' = [status EXCEPT ![commands[id]] = s]
  <2>1. commands[id] \in Obj
    BY <1>2
  <2>2. status' \in [Obj -> Status] /\ \A p \in Obj : status[p] # "new" => status'[p] # "new"
    BY <1>2, <2>1 DEF Status, Terminal
  <2>3. Append(completeChan, commands[id]) \in Seq(Obj)
    BY <2>1, AppendProperties
  <2>4. completeChan' \in Seq(Obj)
    BY <1>2, <2>3 DEF MarkCommandCompleted
  <2>5. crashed' \in BOOLEAN
    BY <1>2 DEF MarkCommandCompleted, Panic
  <2> QED  BY <2>2, <2>4, <2>5
<1> QED  BY <1>1, <1>2 DEF MarkCommandCompleted

-----------------------------------------------------------------------------
(* The inductive invariant *)

\* The queue as NewExecutionQueue makes it satisfies the invariant.
LEMMA QInvInit == Init => QInv
<1> SUFFICES ASSUME Init PROVE QInv
  OBVIOUS
<1>1. AnyId \in Ids
  BY QueueAssumption DEF AnyId
<1>2. /\ taskCommands \in [Groups -> Seq(Ids)] /\ todo \in Seq(Ids)
      /\ sendChan \in Seq(Obj) /\ completeChan \in Seq(Obj)
  <2>1. <<>> \in Seq(Ids) /\ <<>> \in Seq(Obj)
    BY EmptySeq
  <2> QED  BY <2>1 DEF Init
<1>3. TypeOK
  <2>1. pushed \in 0..MaxPush
    BY QueueAssumption DEF Init
  <2>2. /\ idOf \in [Obj -> Ids] /\ status \in [Obj -> Status]
        /\ commands \in [Ids -> Obj \cup {Nil}] /\ arg \in [Clients -> Obj \cup {Nil}]
    BY <1>1 DEF Init, Status
  <2> QED  BY <1>2, <2>1, <2>2, AnyGroupType DEF Init, TypeOK
<1>4. ArgInv /\ CleaningInv /\ EntryInv
  BY DEF Init, ArgInv, CleaningInv, EntryInv, Nil
<1> QED  BY <1>3, <1>4 DEF QInv

\* Every step of a caller, a goroutine of the queue or its consumer preserves it.
LEMMA QInvStep == QInv /\ [Next]_qvars => QInv'
<1> SUFFICES ASSUME QInv, [Next]_qvars PROVE QInv'
  OBVIOUS
<1> USE QueueAssumption DEF QInv, TypeOK, ArgInv, CleaningInv, EntryInv, Obj, Nil, Status
<1> USE DEF mapVars, lockVars, chanVars, objVars, clientVars, cleanerVars, lifeVars
<1>1. ASSUME Start PROVE QInv'
  BY <1>1 DEF Start
<1>2. ASSUME StopBegin PROVE QInv'
  BY <1>2 DEF StopBegin, CancelContext, Cancelled
<1>3. ASSUME StopCancelCommands PROVE QInv'
  BY <1>3 DEF StopCancelCommands, Cancelled
<1>4. ASSUME StopClose PROVE QInv'
  BY <1>4 DEF StopClose
<1>5. ASSUME StopReturn PROVE QInv'
  BY <1>5 DEF StopReturn
<1>6. ASSUME NEW c \in Clients, NEW id \in Ids, PushBegin(c, id) PROVE QInv'
  BY <1>6 DEF PushBegin
<1>7. ASSUME NEW c \in Clients, PushRejected(c) PROVE QInv'
  BY <1>7 DEF PushRejected
<1>8. ASSUME NEW c \in Clients, PushStore(c) PROVE QInv'
  <2>1. arg[c] \in 1..pushed /\ arg[c] \in Obj /\ idOf[arg[c]] \in Ids
    BY <1>8 DEF PushStore
  <2>2. TypeOK' /\ ArgInv' /\ CleaningInv'
    BY <1>8, <2>1 DEF PushStore
  <2>3. EntryInv'
    BY <1>8, <2>1 DEF PushStore
  <2> QED  BY <2>2, <2>3
<1>9. ASSUME NEW c \in Clients, PushSend(c) PROVE QInv'
  <2>1. arg[c] \in Obj /\ idOf[arg[c]] \in Ids /\ extractTaskID(idOf[arg[c]]) \in Groups
    BY <1>9, GroupType DEF PushSend
  <2>2. taskCommands' \in [Groups -> Seq(Ids)]
    BY <1>9, <2>1, AppendProperties DEF PushSend
  <2>3. sendChan' \in Seq(Obj) /\ crashed' \in BOOLEAN
    <3>1. Append(sendChan, arg[c]) \in Seq(Obj)
      BY <2>1, AppendProperties
    <3> QED  BY <1>9, <3>1 DEF PushSend, Panic
  <2>4. /\ pc' \in [Clients -> {"idle", "pushLock", "pushIndex", "pushRelock", "remove", "clearIndex"}]
        /\ arg' \in [Clients -> Obj \cup {Nil}]
        /\ ArgInv'
        /\ commandsLock' \in Clients \cup {Free, Cleaner}
    <3>1. UNCHANGED pushed
      BY <1>9 DEF PushSend
    <3>2. CASE UNCHANGED <<commandsLock, pc, arg>>
      BY <3>1, <3>2
    <3>3. CASE commandsLock' = Free /\ pc' = [pc EXCEPT ![c] = "idle"] /\ arg' = [arg EXCEPT ![c] = Nil]
      BY <3>1, <3>3
    <3>4. CASE pc' = [pc EXCEPT ![c] = "pushRelock"] /\ UNCHANGED <<commandsLock, arg>>
      BY <1>9, <3>1, <3>4 DEF PushSend
    <3> QED  BY <1>9, <3>2, <3>3, <3>4 DEF PushSend
  <2>5. TypeOK' /\ CleaningInv' /\ EntryInv'
    BY <1>9, <2>2, <2>3, <2>4 DEF PushSend
  <2> QED  BY <2>4, <2>5
<1>10. ASSUME NEW c \in Clients, NEW g \in Groups, RemoveBegin(c, g) PROVE QInv'
  BY <1>10 DEF RemoveBegin
<1>11. ASSUME NEW c \in Clients, RemoveOne(c) PROVE QInv'
  BY <1>11 DEF RemoveOne, Cancelled
<1>12. ASSUME NEW c \in Clients, RemoveEnd(c) PROVE QInv'
  BY <1>12, AnyGroupType, EmptySeq DEF RemoveEnd
<1>13. ASSUME NEW c \in Clients, ClearCommands(c) PROVE QInv'
  BY <1>13 DEF ClearCommands, Cancelled
<1>14. ASSUME NEW c \in Clients, ClearIndex(c) PROVE QInv'
  BY <1>14 DEF ClearIndex
<1>15. ASSUME SenderReceive PROVE QInv'
  BY <1>15 DEF SenderReceive
<1>16. ASSUME SenderReceiveNil PROVE QInv'
  BY <1>16 DEF SenderReceiveNil, Panic
<1>17. ASSUME SenderExit PROVE QInv'
  BY <1>17 DEF SenderExit
<1>18. ASSUME NEW o \in Obj, TimerMarkSent(o) PROVE QInv'
  <2>1. idOf[o] \in Ids
    OBVIOUS
  <2>2. CASE MarkCommandSent(idOf[o]) /\ timer' = [timer EXCEPT ![o] = "wait"] /\ UNCHANGED ctx
    BY <1>18, <2>1, <2>2 DEF TimerMarkSent, MarkCommandSent, CanMarkSent
  <2>3. CASE UNCHANGED status /\ timer' = [timer EXCEPT ![o] = "done"] /\ ctx' = [ctx EXCEPT ![o] = "none"]
    BY <1>18, <2>3 DEF TimerMarkSent
  <2> QED  BY <1>18, <2>2, <2>3 DEF TimerMarkSent
<1>19. ASSUME NEW o \in Obj, Deadline(o) PROVE QInv'
  BY <1>19 DEF Deadline
<1>20. ASSUME NEW o \in Obj, TimerExpired(o) PROVE QInv'
  <2>1. idOf[o] \in Ids /\ "Failed" \in Terminal
    BY DEF Terminal
  <2>2. MarkCommandCompleted(idOf[o], "Failed")
    BY <1>20 DEF TimerExpired
  <2>3. /\ status' \in [Obj -> Status]
        /\ \A p \in Obj : status[p] # "new" => status'[p] # "new"
        /\ completeChan' \in Seq(Obj) /\ crashed' \in BOOLEAN
    BY <2>1, <2>2, CompletedType DEF QInv
  <2> QED  BY <1>20, <2>3 DEF TimerExpired
<1>21. ASSUME NEW o \in Obj, TimerCancelled(o) PROVE QInv'
  BY <1>21 DEF TimerCancelled
<1>22. ASSUME CleanerReceive PROVE QInv'
  BY <1>22 DEF CleanerReceive
<1>23. ASSUME CleanerReceiveNil PROVE QInv'
  BY <1>23 DEF CleanerReceiveNil, Panic
<1>24. ASSUME CleanerExit PROVE QInv'
  BY <1>24 DEF CleanerExit
<1>25. ASSUME CleanupEntry PROVE QInv'
  <2>1. cleaning \in Obj /\ idOf[cleaning] \in Ids
    BY <1>25 DEF CleanupEntry
  <2>2. CASE /\ commandsLock' = Cleaner
             /\ commands' = [commands EXCEPT ![idOf[cleaning]] = Nil]
             /\ cleaner' = "index" /\ UNCHANGED cleaning
    BY <1>25, <2>1, <2>2 DEF CleanupEntry
  <2>3. CASE cleaner' = "run" /\ cleaning' = Nil /\ UNCHANGED <<commandsLock, commands>>
    BY <1>25, <2>3 DEF CleanupEntry
  <2> QED  BY <1>25, <2>2, <2>3 DEF CleanupEntry
<1>26. ASSUME CleanupIndex PROVE QInv'
  <2>1. idOf[cleaning] \in Ids /\ extractTaskID(idOf[cleaning]) \in Groups
    BY <1>26, GroupType DEF CleanupIndex
  <2>2. taskCommands' \in [Groups -> Seq(Ids)]
    BY <1>26, <2>1, RemoveFirstType DEF CleanupIndex
  <2> QED  BY <1>26, <2>2 DEF CleanupIndex
<1>27. ASSUME ParentCancel PROVE QInv'
  BY <1>27 DEF ParentCancel, CancelContext, Cancelled
<1>28. ASSUME ConsumerTakeCommand PROVE QInv'
  <2>1. sendChan # <<>> => Tail(sendChan) \in Seq(Obj)
    BY HeadTailProperties
  <2>2. sendChan' \in Seq(Obj)
    BY <1>28, <2>1 DEF ConsumerTakeCommand, TakeCommand
  <2>3. crashed' \in BOOLEAN
    BY <1>28 DEF ConsumerTakeCommand, TakeCommand, Panic
  <2> QED  BY <1>28, <2>2, <2>3 DEF ConsumerTakeCommand
<1>29. ASSUME ConsumerTakeCompletion PROVE QInv'
  BY <1>29 DEF ConsumerTakeCompletion
<1>30. ASSUME NEW id \in Ids, ConsumerMarkStarted(id) PROVE QInv'
  BY <1>30 DEF ConsumerMarkStarted, MarkCommandStarted, CanMarkStarted
<1>31. ASSUME NEW id \in Ids, NEW s \in Terminal, ConsumerMarkCompleted(id, s) PROVE QInv'
  <2>1. MarkCommandCompleted(id, s)
    BY <1>31 DEF ConsumerMarkCompleted
  <2>2. /\ status' \in [Obj -> Status]
        /\ \A p \in Obj : status[p] # "new" => status'[p] # "new"
        /\ completeChan' \in Seq(Obj) /\ crashed' \in BOOLEAN
    BY <2>1, CompletedType
  <2> QED  BY <1>31, <2>2 DEF ConsumerMarkCompleted
<1>32. CASE UNCHANGED qvars
  BY <1>32 DEF qvars
<1> HIDE DEF QInv
<1> QED
  BY <1>1, <1>2, <1>3, <1>4, <1>5, <1>6, <1>7, <1>8, <1>9, <1>10, <1>11, <1>12, <1>13, <1>14,
          <1>15, <1>16, <1>17, <1>18, <1>19, <1>20, <1>21, <1>22, <1>23, <1>24, <1>25, <1>26,
          <1>27, <1>28, <1>29, <1>30, <1>31, <1>32
     DEF Next, QueueStep, Client, Stopper, Sender, Timer, CleanerStep, Consumer

\* The execution queue is type-correct: no interleaving of pushes, removals, timers, clean-up,
\* consumer and Stop makes a map, a channel or a lock hold anything it should not.
THEOREM QueueTypeCorrect == Spec => []TypeOK
<1>1. QInv => TypeOK
  BY DEF QInv
<1> QED  BY QInvInit, QInvStep, <1>1, PTL DEF Spec

-----------------------------------------------------------------------------
(* The queue implements CommandTable *)

\* The instance brings its own copy of FiniteSets; the copies agree.
LEMMA SameFiniteSets ==
  \A S : Table!IsFiniteSet(S) = IsFiniteSet(S) /\ Table!Cardinality(S) = Cardinality(S)
<1>1. \A S : Table!IsFiniteSet(S) = IsFiniteSet(S)
  BY Zenon DEF Table!IsFiniteSet, IsFiniteSet
<1>2. \A S : Table!Cardinality(S) = Cardinality(S)
  BY Zenon DEF Table!Cardinality, Cardinality
<1> QED  BY <1>1, <1>2

\* Slots and entries correspond: a slot is taken exactly when the map has an entry.
LEMMA SlotPresent ==
  ASSUME QInv
  PROVE  /\ Slot \in [Ids -> Table!Status \cup {"absent"}]
         /\ Table!Present = PresentIds
<1> USE DEF QInv, TypeOK, EntryInv, Status, Terminal, Nil
<1>1. \A id \in Ids : commands[id] # Nil => status[commands[id]] \in Status \ {"new"}
  OBVIOUS
<1>2. Slot \in [Ids -> Table!Status \cup {"absent"}]
  BY <1>1 DEF Slot, Table!Status, Table!Terminal
<1>3. \A id \in Ids : Slot[id] # "absent" <=> commands[id] # Nil
  BY <1>1 DEF Slot
<1> QED  BY <1>2, <1>3 DEF Table!Present, PresentIds

\* A step that writes neither the map nor a status is invisible in the table.
LEMMA SlotUnchanged ==
  ASSUME UNCHANGED <<commands, status>>
  PROVE  UNCHANGED Slot
  BY DEF Slot

\* Writing the status of the entry under an ID changes that slot and no other, because no other
\* ID maps to the same object.
LEMMA SlotStatus ==
  ASSUME QInv, NEW id \in Ids, commands[id] # Nil, NEW s,
         UNCHANGED commands, status' = [status EXCEPT ![commands[id]] = s]
  PROVE  Slot[id] = status[commands[id]] /\ Slot' = [Slot EXCEPT ![id] = s]
<1> USE DEF QInv, TypeOK, EntryInv, Nil
<1>1. \A j \in Ids : commands[j] = commands[id] => j = id
  OBVIOUS
<1>2. Slot[id] = status[commands[id]] /\ Slot'[id] = s
  BY DEF Slot
<1>3. ASSUME NEW j \in Ids, j # id PROVE Slot'[j] = Slot[j]
  BY <1>1, <1>3 DEF Slot
<1>4. Slot' = [j \in Ids |-> Slot'[j]] /\ Slot = [j \in Ids |-> Slot[j]]
  BY DEF Slot
<1> QED  BY <1>2, <1>3, <1>4

\* Deleting entries empties their slots and no others.
LEMMA SlotWithdrawn ==
  ASSUME QInv, NEW S \in SUBSET Ids, UNCHANGED status,
         commands' = [id \in Ids |-> IF id \in S THEN Nil ELSE commands[id]]
  PROVE  Table!Withdraw(S)
  BY DEF Slot, Table!Withdraw, QInv, TypeOK

\* MarkCommandCompleted settles the slot, or finds no entry and changes nothing.
LEMMA SlotSettled ==
  ASSUME QInv, NEW id \in Ids, NEW s \in Terminal, MarkCommandCompleted(id, s), UNCHANGED commands
  PROVE  [Table!Next]_Slot
<1>1. CASE commands[id] = Nil
  BY <1>1, SlotUnchanged DEF MarkCommandCompleted
<1>2. CASE commands[id] # Nil
  <2>1. Slot[id] = status[commands[id]] /\ Slot' = [Slot EXCEPT ![id] = s]
    BY <1>2, SlotStatus DEF MarkCommandCompleted
  <2>2. Slot[id] # "absent"
    BY <1>2, <2>1 DEF QInv, TypeOK, Status, Terminal, Nil
  <2>3. s \in Table!Terminal
    BY DEF Terminal, Table!Terminal
  <2> QED  BY <2>1, <2>2, <2>3 DEF Table!Next, Table!Settle
<1> QED  BY <1>1, <1>2

\* Every step of the queue is a step of the table or leaves the table alone.
LEMMA TableStep == QInv /\ [Next]_qvars => [Table!Next]_Slot
<1> SUFFICES ASSUME QInv, [Next]_qvars PROVE [Table!Next]_Slot
  OBVIOUS
<1> USE DEF mapVars, objVars
<1>1. ASSUME NEW c \in Clients, PushStore(c) PROVE [Table!Next]_Slot
  <2> DEFINE id == idOf[arg[c]]
  <2>1. arg[c] \in Obj /\ id \in Ids
    BY <1>1, QueueAssumption DEF PushStore, QInv, TypeOK, ArgInv, Obj
  <2>2. \A j \in Ids : j # id => commands'[j] = commands[j] /\ (commands[j] # Nil => commands[j] # arg[c])
    BY <1>1, <2>1 DEF PushStore, QInv, TypeOK, EntryInv
  <2>3. commands'[id] = arg[c] /\ commands'[id] # Nil /\ status'[arg[c]] = "Pending"
    BY <1>1, <2>1 DEF PushStore, QInv, TypeOK, Obj, Nil
  <2>4. \A o \in Obj : o # arg[c] => status'[o] = status[o]
    BY <1>1, <2>1 DEF PushStore, QInv, TypeOK
  <2>5. Slot' = [Slot EXCEPT ![id] = "Pending"]
    <3>1. Slot'[id] = "Pending"
      BY <2>1, <2>3 DEF Slot
    <3>2. ASSUME NEW j \in Ids, j # id PROVE Slot'[j] = Slot[j]
      <4>1. commands[j] # Nil => commands[j] \in Obj
        BY DEF QInv, TypeOK
      <4> QED  BY <4>1, <2>2, <2>4, <3>2 DEF Slot
    <3>3. Slot' = [j \in Ids |-> Slot'[j]] /\ Slot = [j \in Ids |-> Slot[j]]
      BY DEF Slot
    <3> QED  BY <3>1, <3>2, <3>3
  <2>6. Cardinality(Table!Present) < MaxSize
    BY <1>1, SlotPresent DEF PushStore
  <2>7. Table!Accept(id)
    BY <2>5, <2>6, SameFiniteSets DEF Table!Accept
  <2> QED  BY <2>1, <2>7 DEF Table!Next
<1>2. ASSUME NEW c \in Clients, RemoveOne(c) PROVE [Table!Next]_Slot
  <2>1. Head(todo) \in Ids
    BY <1>2, HeadTailProperties DEF RemoveOne, QInv, TypeOK
  <2>2. commands' = [id \in Ids |-> IF id \in {Head(todo)} THEN Nil ELSE commands[id]] /\ UNCHANGED status
    BY <1>2, <2>1 DEF RemoveOne, QInv, TypeOK
  <2>3. {Head(todo)} \in SUBSET Ids
    BY <2>1
  <2> QED  BY <2>2, <2>3, SlotWithdrawn DEF Table!Next
<1>3. ASSUME NEW c \in Clients, ClearCommands(c) PROVE [Table!Next]_Slot
  <2>1. commands' = [id \in Ids |-> IF id \in Ids THEN Nil ELSE commands[id]] /\ UNCHANGED status
    BY <1>3 DEF ClearCommands
  <2> QED  BY <2>1, SlotWithdrawn DEF Table!Next
<1>4. ASSUME NEW o \in Obj, TimerMarkSent(o) PROVE [Table!Next]_Slot
  <2> DEFINE id == idOf[o]
  <2>1. id \in Ids /\ UNCHANGED commands
    BY <1>4 DEF TimerMarkSent, QInv, TypeOK
  <2>2. CASE MarkCommandSent(id)
    <3>1. commands[id] # Nil /\ status[commands[id]] = "Pending"
      BY <2>2 DEF MarkCommandSent, CanMarkSent
    <3>2. Slot[id] = "Pending" /\ Slot' = [Slot EXCEPT ![id] = "Sent"]
      BY <2>1, <2>2, <3>1, SlotStatus DEF MarkCommandSent
    <3> QED  BY <2>1, <3>2 DEF Table!Next, Table!Send
  <2>3. CASE UNCHANGED status
    BY <2>1, <2>3, SlotUnchanged
  <2> QED  BY <1>4, <2>2, <2>3 DEF TimerMarkSent
<1>5. ASSUME NEW o \in Obj, TimerExpired(o) PROVE [Table!Next]_Slot
  <2>1. idOf[o] \in Ids /\ "Failed" \in Terminal
    BY DEF QInv, TypeOK, Terminal
  <2>2. MarkCommandCompleted(idOf[o], "Failed") /\ UNCHANGED commands
    BY <1>5 DEF TimerExpired
  <2> QED  BY <2>1, <2>2, SlotSettled
<1>6. ASSUME CleanupEntry PROVE [Table!Next]_Slot
  <2> DEFINE id == idOf[cleaning]
  <2>1. id \in Ids /\ UNCHANGED status
    BY <1>6 DEF CleanupEntry, QInv, TypeOK, CleaningInv
  <2>2. CASE commands' = [commands EXCEPT ![id] = Nil]
    <3>1. commands' = [j \in Ids |-> IF j \in {id} THEN Nil ELSE commands[j]]
      BY <2>1, <2>2 DEF QInv, TypeOK
    <3>2. {id} \in SUBSET Ids
      BY <2>1
    <3> QED  BY <2>1, <3>1, <3>2, SlotWithdrawn DEF Table!Next
  <2>3. CASE UNCHANGED commands
    BY <2>1, <2>3, SlotUnchanged
  <2> QED  BY <1>6, <2>2, <2>3 DEF CleanupEntry
<1>7. ASSUME NEW id \in Ids, ConsumerMarkStarted(id) PROVE [Table!Next]_Slot
  <2>1. commands[id] # Nil /\ status[commands[id]] = "Sent"
    BY <1>7 DEF ConsumerMarkStarted, MarkCommandStarted, CanMarkStarted
  <2>2. Slot[id] = "Sent" /\ Slot' = [Slot EXCEPT ![id] = "Executing"]
    BY <1>7, <2>1, SlotStatus DEF ConsumerMarkStarted, MarkCommandStarted
  <2> QED  BY <2>2 DEF Table!Next, Table!Begin
<1>8. ASSUME NEW id \in Ids, NEW s \in Terminal, ConsumerMarkCompleted(id, s) PROVE [Table!Next]_Slot
  <2>1. MarkCommandCompleted(id, s) /\ UNCHANGED commands
    BY <1>8 DEF ConsumerMarkCompleted
  <2> QED  BY <2>1, SlotSettled
<1>9. ASSUME \/ Start \/ StopBegin \/ StopCancelCommands \/ StopClose \/ StopReturn \/ ParentCancel
     PROVE UNCHANGED Slot
  BY <1>9, SlotUnchanged DEF Start, StopBegin, StopCancelCommands, StopClose, StopReturn, ParentCancel
<1>10. ASSUME NEW c \in Clients,
           \/ \E id \in Ids : PushBegin(c, id)
           \/ PushRejected(c) \/ PushSend(c) \/ RemoveEnd(c) \/ ClearIndex(c)
           \/ \E g \in Groups : RemoveBegin(c, g)
     PROVE UNCHANGED Slot
  BY <1>10, SlotUnchanged DEF PushBegin, PushRejected, PushSend, RemoveBegin, RemoveEnd, ClearIndex
<1>11. ASSUME SenderReceive \/ SenderReceiveNil \/ SenderExit \/ ConsumerTakeCommand \/ ConsumerTakeCompletion
     PROVE UNCHANGED Slot
  BY <1>11, SlotUnchanged DEF SenderReceive, SenderReceiveNil, SenderExit, ConsumerTakeCommand, ConsumerTakeCompletion
<1>12. ASSUME NEW o \in Obj, Deadline(o) \/ TimerCancelled(o)
     PROVE UNCHANGED Slot
  BY <1>12, SlotUnchanged DEF Deadline, TimerCancelled
<1>13. ASSUME CleanerReceive \/ CleanerReceiveNil \/ CleanerExit \/ CleanupIndex
     PROVE UNCHANGED Slot
  BY <1>13, SlotUnchanged DEF CleanerReceive, CleanerReceiveNil, CleanerExit, CleanupIndex
<1>14. CASE UNCHANGED qvars
  BY <1>14, SlotUnchanged DEF qvars
<1> QED
  BY <1>1, <1>2, <1>3, <1>4, <1>5, <1>6, <1>7, <1>8, <1>9, <1>10, <1>11, <1>12, <1>13, <1>14
     DEF Next, QueueStep, Client, Stopper, Sender, Timer, CleanerStep, Consumer

\* The queue implements CommandTable: for every capacity and every number of callers, commands
\* and timers, Push accepts only while there is room, MarkCommandSent and MarkCommandStarted
\* move an entry one step on, and only settling, replacing and removing change it otherwise.
THEOREM QueueImplementsTable == Spec => ImplementsCommandTable
<1>1. Init => Table!Init
  BY DEF Init, Table!Init, Slot
<1> QED  BY <1>1, QInvInit, QInvStep, TableStep, PTL DEF Spec, ImplementsCommandTable, Table!Spec

\* Whatever is accepted, settled and withdrawn, in whatever order, a command table never holds
\* more than MaxSize commands: the promise behind "execution queue is full" in Push.  The proof
\* looks at the table's own steps only, never at the queue's.
THEOREM TableCapacity == Table!Spec => [](Table!TypeOK /\ Table!WithinCapacity)
<1> DEFINE P == Table!Present
           TableInv == Table!TypeOK /\ IsFiniteSet(P) /\ Cardinality(P) <= MaxSize
<1>0. MaxSize \in Nat
  BY QueueAssumption
<1>1. Table!Init => TableInv
  <2> SUFFICES ASSUME Table!Init PROVE TableInv
    OBVIOUS
  <2>1. Table!TypeOK
    BY DEF Table!Init, Table!TypeOK
  <2>2. P = {}
    BY DEF Table!Init, Table!Present
  <2> QED  BY <1>0, <2>1, <2>2, FS_EmptySet
<1>2. TableInv /\ [Table!Next]_Slot => TableInv'
  <2> SUFFICES ASSUME TableInv, [Table!Next]_Slot PROVE TableInv'
    OBVIOUS
  <2> HIDE DEF P
  <2>1. ASSUME P' \subseteq P PROVE IsFiniteSet(P') /\ Cardinality(P') <= MaxSize
    <3>1. IsFiniteSet(P') /\ Cardinality(P') <= Cardinality(P)
      BY <2>1, FS_Subset
    <3>2. Cardinality(P) \in Nat /\ Cardinality(P') \in Nat
      BY <3>1, FS_CardinalityType
    <3> QED  BY <1>0, <3>1, <3>2
  <2>2. ASSUME NEW id \in Ids, Table!Accept(id) PROVE TableInv'
    <3>1. Table!TypeOK'
      BY <2>2 DEF Table!Accept, Table!Status, Table!TypeOK
    <3>2. P' = P \cup {id}
      BY <2>2 DEF Table!Accept, Table!Present, P, Table!TypeOK
    <3>3. Cardinality(P) < MaxSize
      BY <2>2, SameFiniteSets DEF Table!Accept, P
    <3>4. Cardinality(P) \in Nat
      BY FS_CardinalityType
    <3>5. /\ IsFiniteSet(P \cup {id})
          /\ \/ Cardinality(P \cup {id}) = Cardinality(P)
             \/ Cardinality(P \cup {id}) = Cardinality(P) + 1
      BY FS_AddElement
    <3> QED  BY <1>0, <3>1, <3>2, <3>3, <3>4, <3>5
  <2>3. ASSUME NEW id \in Ids, Table!Send(id) PROVE TableInv'
    <3>1. Table!TypeOK' /\ P' \subseteq P
      BY <2>3 DEF Table!Send, Table!Status, Table!Present, P, Table!TypeOK
    <3> QED  BY <3>1, <2>1
  <2>4. ASSUME NEW id \in Ids, Table!Begin(id) PROVE TableInv'
    <3>1. Table!TypeOK' /\ P' \subseteq P
      BY <2>4 DEF Table!Begin, Table!Status, Table!Present, P, Table!TypeOK
    <3> QED  BY <3>1, <2>1
  <2>5. ASSUME NEW id \in Ids, NEW s \in Table!Terminal, Table!Settle(id, s) PROVE TableInv'
    <3>1. Table!TypeOK' /\ P' \subseteq P
      BY <2>5 DEF Table!Settle, Table!Status, Table!Terminal, Table!Present, P, Table!TypeOK
    <3> QED  BY <3>1, <2>1
  <2>6. ASSUME NEW S \in SUBSET Ids, Table!Withdraw(S) PROVE TableInv'
    <3>1. Table!TypeOK' /\ P' \subseteq P
      BY <2>6 DEF Table!Withdraw, Table!Present, P, Table!TypeOK
    <3> QED  BY <3>1, <2>1
  <2>7. CASE UNCHANGED Slot
    <3>1. Table!TypeOK' /\ P' = P
      BY <2>7 DEF Table!Present, P, Table!TypeOK
    <3> QED  BY <3>1
  <2> QED  BY <2>2, <2>3, <2>4, <2>5, <2>6, <2>7 DEF Table!Next
<1>3. TableInv => Table!TypeOK /\ Table!WithinCapacity
  BY SameFiniteSets DEF Table!WithinCapacity
<1> QED  BY <1>1, <1>2, <1>3, PTL DEF Table!Spec

\* So the queue never holds more than maxSize commands, however its callers interleave between
\* the size check of Push and the deletions of clean-up, removal and Clear.
THEOREM QueueCapacity == Spec => []WithinCapacity
  BY QueueImplementsTable, TableCapacity, PTL DEF ImplementsCommandTable, WithinCapacity
-----------------------------------------------------------------------------
(* Late completions *)

\* The only deletion outside RemoveByTaskID and Clear is the clean-up's, of a settled entry.
LEMMA ReclaimStep ==
  ASSUME QInv, [Next]_qvars, NEW id \in Ids, commands[id] # Nil, commands'[id] = Nil,
         status[commands[id]] \notin Terminal
  PROVE  \E c \in Clients : RemoveOne(c) \/ ClearCommands(c)
<1> SUFFICES ASSUME \A c \in Clients : ~RemoveOne(c) /\ ~ClearCommands(c) PROVE FALSE
  OBVIOUS
<1> USE DEF mapVars
<1>1. ~UNCHANGED commands
  OBVIOUS
<1>2. ASSUME NEW c \in Clients, PushStore(c) PROVE FALSE
  <2>1. arg[c] # Nil /\ commands' = [commands EXCEPT ![idOf[arg[c]]] = arg[c]]
    BY <1>2, QueueAssumption DEF PushStore, QInv, TypeOK, ArgInv, Nil
  <2> QED  BY <2>1 DEF QInv, TypeOK
<1>3. ASSUME CleanupEntry PROVE FALSE
  <2>1. CASE IsSettled(idOf[cleaning]) /\ commands' = [commands EXCEPT ![idOf[cleaning]] = Nil]
    BY <2>1 DEF IsSettled, QInv, TypeOK
  <2> QED  BY <1>1, <1>3, <2>1 DEF CleanupEntry
<1>4. ASSUME NEW c \in Clients, Client(c) PROVE FALSE
  BY <1>1, <1>2, <1>4
     DEF Client, PushBegin, PushRejected, PushSend, RemoveBegin, RemoveEnd, ClearIndex
<1>5. ASSUME Start \/ Stopper \/ Sender PROVE FALSE
  BY <1>1, <1>5
     DEF Start, Stopper, StopBegin, StopCancelCommands, StopClose, StopReturn,
         Sender, SenderReceive, SenderReceiveNil, SenderExit
<1>6. ASSUME NEW o \in Obj, Timer(o) PROVE FALSE
  BY <1>1, <1>6 DEF Timer, TimerMarkSent, Deadline, TimerExpired, TimerCancelled
<1>7. ASSUME CleanerStep PROVE FALSE
  BY <1>1, <1>3, <1>7 DEF CleanerStep, CleanerReceive, CleanerReceiveNil, CleanerExit, CleanupIndex
<1>8. ASSUME Consumer PROVE FALSE
  BY <1>1, <1>8
     DEF Consumer, ParentCancel, ConsumerTakeCommand, ConsumerTakeCompletion, ConsumerMarkStarted,
         ConsumerMarkCompleted
<1>9. ~UNCHANGED qvars
  BY <1>1 DEF qvars
<1> QED  BY <1>4, <1>5, <1>6, <1>7, <1>8, <1>9 DEF Next, QueueStep

\* A completion that comes late, after its ID was pushed again, never deletes the new command:
\* cleanupCompletedCommand looks the status up again under the lock.
THEOREM LiveEntriesKept == Spec => NoLiveEntryReclaimed
<1>1. QInv /\ [Next]_qvars =>
        [\A id \in Ids :
           commands[id] # Nil /\ commands'[id] = Nil /\ status[commands[id]] \notin Terminal
             => \E c \in Clients : RemoveOne(c) \/ ClearCommands(c)]_qvars
  BY ReclaimStep
<1> QED  BY QInvInit, QInvStep, <1>1, PTL DEF Spec, NoLiveEntryReclaimed

-----------------------------------------------------------------------------
(* The task index of the execution queue covers its entries.  The argument  *)
(* is about the lock discipline: who may stand between the map and the      *)
(* index, and what a RemoveByTaskID that holds taskLock still has to remove. *)


Listed(id, s) == \E i \in DOMAIN s : s[i] = id

\* commandsLock is held, between two steps, exactly by a Push or Clear that waits for taskLock
\* (or for itself), or by the clean-up.
CommandsLockInv ==
  /\ \A c \in Clients : pc[c] \in {"pushIndex", "pushRelock", "clearIndex"} <=> commandsLock = c
  /\ cleaner = "index" <=> commandsLock = Cleaner
  /\ qctx = "none" => cleaner = "off"

\* taskLock is held exactly by RemoveByTaskID.
TaskLockInv == \A c \in Clients : pc[c] = "remove" <=> taskLock = c

\* Completions name allocated objects, whose IDs no longer change.
CompletionInv == completeChan \in Seq(1..pushed) /\ cleaning \in 0..pushed

\* Clear and the clean-up have deleted their entries when they come to the index.
ClearedInv ==
  /\ \A c \in Clients : pc[c] = "clearIndex" => \A id \in Ids : commands[id] = Nil
  /\ cleaner = "index" => commands[idOf[cleaning]] = Nil

\* What is left of the task that is being removed is still to be removed, or arrived since.
RemovalInv ==
  \A c \in Clients : pc[c] = "remove" =>
    \A id \in PresentIds : extractTaskID(id) = removeGroup => Indexing(id) \/ Listed(id, todo)

LockInv == CommandsLockInv /\ TaskLockInv /\ CompletionInv /\ ClearedInv /\ RemovalInv
IndexInv == LockInv /\ IndexCoversCommands

-----------------------------------------------------------------------------
(* What the list operations keep *)

\* append keeps what was listed and lists the new ID.
LEMMA ListedAppend ==
  ASSUME NEW S, NEW s \in Seq(S), NEW e \in S
  PROVE  Listed(e, Append(s, e)) /\ \A x : Listed(x, s) => Listed(x, Append(s, e))
<1>1. /\ DOMAIN s = 1..Len(s) /\ Len(s) \in Nat
      /\ DOMAIN Append(s, e) = 1..(Len(s) + 1)
  BY LenProperties, AppendProperties
<1>2. (\A i \in 1..Len(s) : Append(s, e)[i] = s[i]) /\ Append(s, e)[Len(s) + 1] = e
  BY AppendProperties
<1> QED  BY <1>1, <1>2 DEF Listed

\* A list of allocated objects stays one when more objects are allocated.
LEMMA SeqWidens ==
  ASSUME NEW S, NEW T, S \subseteq T, NEW s \in Seq(S)
  PROVE  s \in Seq(T)
<1>1. Len(s) \in Nat /\ s = [i \in 1..Len(s) |-> s[i]]
  BY LenProperties
<1>2. \A i \in 1..Len(s) : s[i] \in T
  BY ElementOfSeq
<1>3. [i \in 1..Len(s) |-> s[i]] \in Seq(T)
  BY <1>1, <1>2
<1> QED  BY <1>1, <1>3

\* The loop of RemoveByTaskID goes on with what it has not handled yet.
LEMMA ListedTail ==
  ASSUME NEW S, NEW s \in Seq(S), s # <<>>, NEW x, Listed(x, s), x # Head(s)
  PROVE  Listed(x, Tail(s))
<1>1. PICK i \in 1..Len(s) : s[i] = x
  BY LenProperties DEF Listed
<1>2. Len(s) \in Nat /\ Head(s) = s[1]
  BY LenProperties
<1>3. i - 1 \in 1..(Len(s) - 1)
  BY <1>1, <1>2
<1>4. Tail(s) \in Seq(S) /\ Len(Tail(s)) = Len(s) - 1 /\ \A k \in 1..Len(Tail(s)) : Tail(s)[k] = s[k + 1]
  BY HeadTailProperties
<1>5. DOMAIN Tail(s) = 1..(Len(s) - 1)
  BY <1>4, LenProperties
<1>6. Tail(s)[i - 1] = x
  <2>1. Tail(s)[i - 1] = s[(i - 1) + 1]
    BY <1>3, <1>4
  <2>2. (i - 1) + 1 = i
    BY <1>1, <1>2
  <2> QED  BY <1>1, <2>1, <2>2
<1> QED  BY <1>3, <1>5, <1>6 DEF Listed

\* Taking one position out of a list keeps what stands at the others.
LEMMA ListedRemoveAt ==
  ASSUME NEW S, NEW s \in Seq(S), NEW k \in 1..Len(s), NEW x, Listed(x, s), x # s[k]
  PROVE  Listed(x, RemoveAt(s, k))
<1> DEFINE a == SubSeq(s, 1, k - 1)
           b == SubSeq(s, k + 1, Len(s))
<1>0. Len(s) \in Nat /\ \A i \in 1..Len(s) : s[i] \in S
  BY LenProperties, ElementOfSeq
<1>1. a \in Seq(S) /\ Len(a) = k - 1 /\ \A i \in 1..(k - 1) : a[i] = s[i]
  <2>1. k - 1 \in Int /\ 1 \in Int /\ \A i \in 1..(k - 1) : s[i] \in S
    BY <1>0
  <2>2. a \in Seq(S) /\ Len(a) = (IF 1 <= k - 1 THEN (k - 1) - 1 + 1 ELSE 0)
        /\ \A i \in 1..((k - 1) - 1 + 1) : a[i] = s[1 + i - 1]
    BY <2>1, SubSeqProperties
  <2>3. k - 1 \in Nat /\ (k - 1) - 1 + 1 = k - 1 /\ \A i \in 1..(k - 1) : 1 + i - 1 = i
    BY <1>0
  <2> QED  BY <2>2, <2>3
<1>2. b \in Seq(S) /\ Len(b) = Len(s) - k /\ \A i \in 1..(Len(s) - k) : b[i] = s[k + i]
  <2>1. k + 1 \in Int /\ Len(s) \in Int /\ \A i \in (k + 1)..Len(s) : s[i] \in S
    BY <1>0
  <2>2. b \in Seq(S) /\ Len(b) = (IF k + 1 <= Len(s) THEN Len(s) - (k + 1) + 1 ELSE 0)
        /\ \A i \in 1..(Len(s) - (k + 1) + 1) : b[i] = s[(k + 1) + i - 1]
    BY <2>1, SubSeqProperties
  <2>3. Len(s) - k \in Nat /\ Len(s) - (k + 1) + 1 = Len(s) - k
        /\ \A i \in 1..(Len(s) - k) : (k + 1) + i - 1 = k + i
    BY <1>0
  <2>4. Len(b) = Len(s) - k
    <3>1. CASE k + 1 <= Len(s)
      BY <3>1, <2>2, <2>3
    <3>2. CASE ~(k + 1 <= Len(s))
      <4>1. Len(b) = 0
        BY <3>2, <2>2
      <4>2. Len(s) = k
        BY <3>2, <1>0
      <4> QED  BY <4>1, <4>2
    <3> QED  BY <3>1, <3>2
  <2>5. \A i \in 1..(Len(s) - k) : b[i] = s[k + i]
    <3> HIDE DEF b
    <3> QED  BY <2>2, <2>3
  <2> QED  BY <2>2, <2>4, <2>5
<1>3. /\ DOMAIN (a \o b) = 1..(Len(s) - 1)
      /\ \A i \in 1..(Len(s) - 1) : (a \o b)[i] = IF i <= k - 1 THEN a[i] ELSE b[i - (k - 1)]
  <2>1. a \o b \in Seq(S) /\ Len(a \o b) = Len(a) + Len(b)
        /\ \A i \in 1..(Len(a) + Len(b)) : (a \o b)[i] = IF i <= Len(a) THEN a[i] ELSE b[i - Len(a)]
    BY <1>1, <1>2, ConcatProperties
  <2>2. Len(a) = k - 1 /\ Len(b) = Len(s) - k /\ (k - 1) + (Len(s) - k) = Len(s) - 1
    BY <1>0, <1>1, <1>2
  <2>3. DOMAIN (a \o b) = 1..Len(a \o b)
    BY <2>1, LenProperties
  <2> HIDE DEF a, b
  <2> QED  BY <2>1, <2>2, <2>3
<1>4. PICK i \in 1..Len(s) : s[i] = x
  BY LenProperties DEF Listed
<1>5. i # k
  BY <1>4
<1> HIDE DEF a, b
<1>6. CASE i < k
  <2>1. i \in 1..(k - 1) /\ i \in 1..(Len(s) - 1) /\ i <= k - 1
    BY <1>6, <1>4, <1>0
  <2>2. (a \o b)[i] = x
    BY <2>1, <1>1, <1>3, <1>4
  <2> QED  BY <2>1, <2>2, <1>3 DEF Listed, RemoveAt, a, b
<1>7. CASE i > k
  <2>1. /\ i - 1 \in 1..(Len(s) - 1) /\ ~(i - 1 <= k - 1) /\ i - k \in 1..(Len(s) - k)
        /\ (i - 1) - (k - 1) = i - k /\ k + (i - k) = i
    BY <1>7, <1>4, <1>0
  <2>2. (a \o b)[i - 1] = b[i - k]
    BY <2>1, <1>3
  <2>3. b[i - k] = x
    BY <2>1, <1>2, <1>4
  <2> QED  BY <2>1, <2>2, <2>3, <1>3 DEF Listed, RemoveAt, a, b
<1> QED  BY <1>0, <1>4, <1>5, <1>6, <1>7

\* The clean-up takes one ID out of a task's list and keeps the others.
LEMMA ListedRemoveFirst ==
  ASSUME NEW S, NEW s \in Seq(S), NEW e, NEW x, Listed(x, s), x # e
  PROVE  Listed(x, RemoveFirst(s, e))
<1> DEFINE I == {i \in 1..Len(s) : s[i] = e}
<1>1. CASE I # {}
  <2>1. Min(I) \in I
    <3>1. I \in SUBSET Nat
      BY LenProperties
    <3> QED  BY <1>1, <3>1, MinIsMember
  <2>2. RemoveFirst(s, e) = RemoveAt(s, Min(I))
    BY <1>1 DEF RemoveFirst, SelectInSeq
  <2> QED  BY <2>1, <2>2, ListedRemoveAt
<1>2. CASE I = {}
  BY <1>2 DEF RemoveFirst
<1> QED  BY <1>1, <1>2

-----------------------------------------------------------------------------
(* The inductive invariant *)

\* A new queue has nothing stored, nothing locked and nobody inside an operation.
LEMMA IndexInvInit == Init => IndexInv
<1> SUFFICES ASSUME Init PROVE IndexInv
  OBVIOUS
<1>1. CommandsLockInv /\ TaskLockInv
  BY QueueAssumption DEF Init, CommandsLockInv, TaskLockInv, Free, Cleaner
<1>2. CompletionInv
  BY EmptySeq DEF Init, CompletionInv, Nil
<1>3. ClearedInv /\ RemovalInv /\ IndexCoversCommands
  BY DEF Init, ClearedInv, RemovalInv, IndexCoversCommands, PresentIds, Nil
<1> QED  BY <1>1, <1>2, <1>3 DEF IndexInv, LockInv

\* IndexCoversCommands in terms of Listed.
LEMMA IndexListed ==
  IndexCoversCommands <=>
    \A id \in PresentIds : Indexing(id) \/ Listed(id, taskCommands[extractTaskID(id)])
  BY DEF IndexCoversCommands, Listed

\* A step that touches neither the maps, the locks nor the callers keeps the index covering.
LEMMA IndexFrame ==
  ASSUME IndexInv, UNCHANGED <<mapVars, lockVars, idOf, clientVars>>,
         CommandsLockInv', CompletionInv', ClearedInv'
  PROVE  IndexInv'
<1> USE DEF mapVars, lockVars, clientVars
<1>1. \A id : Indexing(id)' <=> Indexing(id)
  BY DEF Indexing
<1>2. TaskLockInv' /\ RemovalInv' /\ IndexCoversCommands'
  BY <1>1 DEF IndexInv, LockInv, TaskLockInv, RemovalInv, IndexCoversCommands, PresentIds
<1> QED  BY <1>2 DEF IndexInv, LockInv

\* Completion notices of MarkCommandCompleted name the entry it settled.
LEMMA CompletionKept ==
  ASSUME QInv, CompletionInv, NEW id \in Ids, NEW s \in Terminal, MarkCommandCompleted(id, s),
         UNCHANGED <<pushed, cleaning>>
  PROVE  CompletionInv'
<1>1. CASE UNCHANGED completeChan
  BY <1>1 DEF CompletionInv
<1>2. CASE commands[id] # Nil /\ completeChan' = Append(completeChan, commands[id])
  <2>1. commands[id] \in 1..pushed
    BY <1>2 DEF QInv, EntryInv
  <2> QED  BY <1>2, <2>1, AppendProperties DEF CompletionInv
<1> QED  BY <1>1, <1>2 DEF MarkCommandCompleted

\* Every step of the queue and its consumer keeps the index covering the entries.
LEMMA IndexInvStep == QInv /\ QInv' /\ IndexInv /\ [Next]_qvars => IndexInv'
<1> SUFFICES ASSUME QInv, QInv', IndexInv, [Next]_qvars PROVE IndexInv'
  OBVIOUS
<1> USE QueueAssumption DEF IndexInv, LockInv, mapVars, lockVars, chanVars, objVars, clientVars, cleanerVars, lifeVars
<1>1. ASSUME NEW c \in Clients, NEW id \in Ids, PushBegin(c, id) PROVE IndexInv'
  <2>1. /\ CommandsLockInv' /\ TaskLockInv'
    BY <1>1 DEF PushBegin, CommandsLockInv, TaskLockInv, QInv, TypeOK
  <2>2. CompletionInv'
    <3>1. 1..pushed \subseteq 1..(pushed + 1) /\ 0..pushed \subseteq 0..(pushed + 1)
      BY DEF QInv, TypeOK
    <3>2. completeChan \in Seq(1..(pushed + 1))
      BY <3>1, SeqWidens DEF CompletionInv
    <3> QED  BY <1>1, <3>1, <3>2 DEF PushBegin, CompletionInv
  <2>3. ASSUME NEW j, Indexing(j) PROVE Indexing(j)'
    <3>1. PICK d \in Clients : pc[d] = "pushIndex" /\ idOf[arg[d]] = j
      BY <2>3 DEF Indexing
    <3>2. d # c /\ arg[d] \in 1..pushed /\ pushed \in Nat
      BY <1>1, <3>1 DEF PushBegin, QInv, TypeOK, ArgInv
    <3>3. arg[d] # pushed + 1
      BY <3>2
    <3>4. arg'[d] = arg[d] /\ pc'[d] = pc[d]
      BY <1>1, <3>2 DEF PushBegin, QInv, TypeOK
    <3>5. idOf'[arg[d]] = idOf[arg[d]]
      <4>1. arg[d] \in Obj
        BY <3>2 DEF QInv, TypeOK, Obj
      <4> QED  BY <1>1, <3>3, <4>1 DEF PushBegin, QInv, TypeOK
    <3> QED  BY <3>1, <3>4, <3>5 DEF Indexing
  <2>4. ClearedInv'
    <3>1. cleaner = "index" => idOf'[cleaning] = idOf[cleaning]
      BY <1>1 DEF PushBegin, QInv, TypeOK, CleaningInv, CompletionInv, Obj
    <3> QED  BY <1>1, <3>1 DEF PushBegin, ClearedInv, QInv, TypeOK
  <2>5. PresentIds' = PresentIds /\ \A d \in Clients : pc'[d] = "remove" => pc[d] = "remove"
    BY <1>1 DEF PushBegin, PresentIds, QInv, TypeOK
  <2>6. RemovalInv'
    BY <1>1, <2>3, <2>5 DEF PushBegin, RemovalInv
  <2>7. IndexCoversCommands'
    BY <1>1, <2>3, <2>5 DEF PushBegin, IndexCoversCommands
  <2> QED  BY <2>1, <2>2, <2>4, <2>6, <2>7
<1>2. ASSUME NEW c \in Clients, PushRejected(c) PROVE IndexInv'
  <2>1. CommandsLockInv' /\ TaskLockInv' /\ CompletionInv' /\ ClearedInv'
    BY <1>2 DEF PushRejected, CommandsLockInv, TaskLockInv, CompletionInv, ClearedInv, QInv, TypeOK
  <2>2. \A j : Indexing(j) => Indexing(j)'
    BY <1>2 DEF PushRejected, Indexing, QInv, TypeOK
  <2>3. /\ PresentIds' = PresentIds /\ UNCHANGED <<taskCommands, removeGroup, todo>>
        /\ \A d \in Clients : pc'[d] = "remove" => pc[d] = "remove"
    BY <1>2 DEF PushRejected, PresentIds, mapVars, objVars, QInv, TypeOK
  <2>4. RemovalInv'
    BY <2>2, <2>3 DEF RemovalInv
  <2>5. IndexCoversCommands'
    BY <2>2, <2>3 DEF IndexCoversCommands
  <2> QED  BY <2>1, <2>4, <2>5
<1>3. ASSUME NEW c \in Clients, PushStore(c) PROVE IndexInv'
  <2>1. arg[c] \in Obj /\ idOf[arg[c]] \in Ids
    BY <1>3 DEF PushStore, QInv, TypeOK, ArgInv, Obj
  <2>2. CommandsLockInv' /\ TaskLockInv' /\ CompletionInv'
    BY <1>3 DEF PushStore, CommandsLockInv, TaskLockInv, CompletionInv, QInv, TypeOK, Free, Cleaner
  <2>3. ClearedInv'
    BY <1>3 DEF PushStore, CommandsLockInv, ClearedInv, QInv, TypeOK, Free, Cleaner
  <2>4. Indexing(idOf[arg[c]])' /\ \A j : Indexing(j) => Indexing(j)'
    BY <1>3 DEF PushStore, Indexing, QInv, TypeOK
  <2>5. \A j \in PresentIds' : j \in PresentIds \/ Indexing(j)'
    BY <1>3, <2>1, <2>4 DEF PushStore, PresentIds, QInv, TypeOK
  <2>6. /\ UNCHANGED <<taskCommands, removeGroup, todo>>
        /\ \A d \in Clients : pc'[d] = "remove" => pc[d] = "remove"
    BY <1>3 DEF PushStore, mapVars, QInv, TypeOK
  <2>7. RemovalInv'
    BY <2>4, <2>5, <2>6 DEF RemovalInv
  <2>8. IndexCoversCommands'
    BY <2>4, <2>5, <2>6 DEF IndexCoversCommands
  <2> QED  BY <2>2, <2>3, <2>7, <2>8
<1>4. ASSUME NEW c \in Clients, PushSend(c) PROVE IndexInv'
  <2> DEFINE id == idOf[arg[c]]
             g == extractTaskID(id)
  <2>1. id \in Ids /\ g \in Groups
    BY <1>4, GroupType DEF PushSend, QInv, TypeOK, ArgInv, Obj
  <2>2. /\ pc[c] = "pushIndex" /\ taskLock = Free
        /\ taskCommands' = [taskCommands EXCEPT ![g] = Append(@, id)]
        /\ UNCHANGED <<commands, taskLock, completeChan, pushed, idOf, removeGroup, todo, cleanerVars, qctx>>
    BY <1>4 DEF PushSend
  <2>3. commandsLock = c /\ (\A d \in Clients : pc[d] # "remove") /\ cleaner # "index"
    BY <2>2 DEF CommandsLockInv, TaskLockInv, Free
  <2>4. CommandsLockInv' /\ \A d \in Clients : pc'[d] # "remove" /\ (pc'[d] = "clearIndex" => pc[d] = "clearIndex")
    <3>1. CASE UNCHANGED <<commandsLock, pc, arg>>
      BY <2>2, <2>3, <3>1 DEF CommandsLockInv
    <3>2. CASE commandsLock' = Free /\ pc' = [pc EXCEPT ![c] = "idle"]
      BY <2>2, <2>3, <3>2 DEF CommandsLockInv, Free, Cleaner, QInv, TypeOK
    <3>3. CASE pc' = [pc EXCEPT ![c] = "pushRelock"] /\ UNCHANGED commandsLock
      BY <2>2, <2>3, <3>3 DEF CommandsLockInv, QInv, TypeOK
    <3> QED  BY <1>4, <3>1, <3>2, <3>3 DEF PushSend
  <2>5. TaskLockInv' /\ CompletionInv' /\ ClearedInv' /\ RemovalInv'
    BY <2>2, <2>3, <2>4 DEF TaskLockInv, CompletionInv, ClearedInv, RemovalInv, Free
  <2>6. ASSUME NEW j \in PresentIds' PROVE Listed(j, taskCommands'[extractTaskID(j)])
    <3>1. j \in PresentIds /\ j \in Ids /\ extractTaskID(j) \in Groups
      BY <2>2, GroupType DEF PresentIds
    <3>2. /\ taskCommands'[g] = Append(taskCommands[g], id) /\ taskCommands[g] \in Seq(Ids)
          /\ \A h \in Groups : h # g => taskCommands'[h] = taskCommands[h]
      BY <2>1, <2>2 DEF QInv, TypeOK
    <3>3. CASE Indexing(j)
      <4>1. j = id
        BY <2>3, <3>3 DEF Indexing, CommandsLockInv
      <4> QED  BY <2>1, <3>2, <4>1, ListedAppend
    <3>4. CASE Listed(j, taskCommands[extractTaskID(j)])
      <4>1. CASE extractTaskID(j) = g
        BY <2>1, <3>2, <3>4, <4>1, ListedAppend
      <4>2. CASE extractTaskID(j) # g
        BY <3>1, <3>2, <3>4, <4>2
      <4> QED  BY <4>1, <4>2
    <3> QED  BY <3>1, <3>3, <3>4, IndexListed
  <2>7. IndexCoversCommands'
    BY <2>6 DEF IndexCoversCommands, Listed
  <2> QED  BY <2>4, <2>5, <2>7
<1>5. ASSUME NEW c \in Clients, NEW g \in Groups, RemoveBegin(c, g) PROVE IndexInv'
  <2>1. \A d \in Clients : pc[d] # "remove"
    BY <1>5 DEF RemoveBegin, TaskLockInv, Free
  <2>2. CommandsLockInv' /\ TaskLockInv' /\ CompletionInv' /\ ClearedInv'
    BY <1>5, <2>1 DEF RemoveBegin, CommandsLockInv, TaskLockInv, CompletionInv, ClearedInv, QInv, TypeOK, Free
  <2>3. \A j : Indexing(j) => Indexing(j)'
    BY <1>5 DEF RemoveBegin, Indexing, QInv, TypeOK
  <2>4. IndexCoversCommands'
    BY <1>5, <2>3 DEF RemoveBegin, IndexCoversCommands, PresentIds
  <2>5. RemovalInv'
    BY <1>5, <2>3, IndexListed DEF RemoveBegin, RemovalInv, PresentIds
  <2> QED  BY <2>2, <2>4, <2>5
<1>6. ASSUME NEW c \in Clients, RemoveOne(c) PROVE IndexInv'
  <2>1. todo \in Seq(Ids) /\ todo # <<>> /\ Head(todo) \in Ids
    BY <1>6, HeadTailProperties DEF RemoveOne, QInv, TypeOK
  <2>2. \A j \in PresentIds' : j \in PresentIds /\ j # Head(todo)
    BY <1>6, <2>1 DEF RemoveOne, PresentIds, QInv, TypeOK
  <2>3. CommandsLockInv' /\ TaskLockInv' /\ CompletionInv'
    BY <1>6 DEF RemoveOne, CommandsLockInv, TaskLockInv, CompletionInv
  <2>4. ClearedInv'
    BY <1>6, <2>1 DEF RemoveOne, ClearedInv, QInv, TypeOK, CommandsLockInv, Free, Cleaner
  <2>5. \A j : Indexing(j) <=> Indexing(j)'
    BY <1>6 DEF RemoveOne, Indexing
  <2>6. IndexCoversCommands'
    BY <1>6, <2>2, <2>5 DEF RemoveOne, IndexCoversCommands
  <2>7. RemovalInv'
    <3>1. \A j : Listed(j, todo) /\ j # Head(todo) => Listed(j, todo')
      BY <1>6, <2>1, ListedTail DEF RemoveOne
    <3>2. UNCHANGED <<pc, removeGroup>>
      BY <1>6 DEF RemoveOne
    <3> QED  BY <2>2, <2>5, <3>1, <3>2 DEF RemovalInv
  <2> QED  BY <2>3, <2>4, <2>6, <2>7
<1>7. ASSUME NEW c \in Clients, RemoveEnd(c) PROVE IndexInv'
  <2>1. taskLock = c /\ \A d \in Clients : d # c => pc[d] # "remove"
    BY <1>7 DEF RemoveEnd, TaskLockInv
  <2>2. CommandsLockInv' /\ TaskLockInv' /\ CompletionInv' /\ ClearedInv'
    BY <1>7, <2>1 DEF RemoveEnd, CommandsLockInv, TaskLockInv, CompletionInv, ClearedInv, QInv, TypeOK, Free
  <2>3. RemovalInv'
    BY <1>7, <2>1 DEF RemoveEnd, RemovalInv, QInv, TypeOK
  <2>4. \A j : Indexing(j) => Indexing(j)'
    BY <1>7 DEF RemoveEnd, Indexing, QInv, TypeOK
  <2>5. ~\E j : Listed(j, todo)
    BY <1>7 DEF RemoveEnd, Listed
  <2>6. \A j \in PresentIds : extractTaskID(j) = removeGroup => Indexing(j)
    BY <1>7, <2>5 DEF RemoveEnd, RemovalInv
  <2>7. \A h \in Groups : h # removeGroup => taskCommands'[h] = taskCommands[h]
    BY <1>7 DEF RemoveEnd, QInv, TypeOK
  <2>8. PresentIds' = PresentIds /\ \A j \in PresentIds : extractTaskID(j) \in Groups
    BY <1>7, GroupType DEF RemoveEnd, PresentIds
  <2>9. IndexCoversCommands'
    BY <2>4, <2>6, <2>7, <2>8 DEF IndexCoversCommands
  <2> QED  BY <2>2, <2>3, <2>9
<1>8. ASSUME NEW c \in Clients, ClearCommands(c) PROVE IndexInv'
  <2>1. PresentIds' = {}
    BY <1>8 DEF ClearCommands, PresentIds
  <2>2. CommandsLockInv' /\ TaskLockInv' /\ CompletionInv'
    BY <1>8 DEF ClearCommands, CommandsLockInv, TaskLockInv, CompletionInv, QInv, TypeOK, Free, Cleaner
  <2>3. ClearedInv'
    BY <1>8 DEF ClearCommands, ClearedInv, CommandsLockInv, Free, Cleaner
  <2>4. RemovalInv' /\ IndexCoversCommands'
    BY <2>1 DEF RemovalInv, IndexCoversCommands
  <2> QED  BY <2>2, <2>3, <2>4
<1>9. ASSUME NEW c \in Clients, ClearIndex(c) PROVE IndexInv'
  <2>1. PresentIds' = {}
    BY <1>9 DEF ClearIndex, ClearedInv, PresentIds
  <2>2. CommandsLockInv' /\ TaskLockInv' /\ CompletionInv' /\ ClearedInv'
    BY <1>9 DEF ClearIndex, CommandsLockInv, TaskLockInv, CompletionInv, ClearedInv, QInv, TypeOK, Free, Cleaner
  <2>3. RemovalInv' /\ IndexCoversCommands'
    BY <2>1 DEF RemovalInv, IndexCoversCommands
  <2> QED  BY <2>2, <2>3
<1>10. ASSUME CleanupEntry PROVE IndexInv'
  <2>1. cleaning \in Obj /\ idOf[cleaning] \in Ids
    BY <1>10 DEF CleanupEntry, QInv, TypeOK, CleaningInv
  <2>2. UNCHANGED <<taskCommands, taskLock, completeChan, pushed, idOf, clientVars, qctx>> /\ commandsLock = Free
    BY <1>10 DEF CleanupEntry
  <2>3. CASE /\ commandsLock' = Cleaner
             /\ commands' = [commands EXCEPT ![idOf[cleaning]] = Nil]
             /\ cleaner' = "index" /\ UNCHANGED cleaning
    <3>1. PresentIds' \subseteq PresentIds
      BY <2>1, <2>3 DEF PresentIds, QInv, TypeOK
    <3>2. CommandsLockInv' /\ TaskLockInv' /\ CompletionInv'
      BY <1>10, <2>2, <2>3 DEF CleanupEntry, CommandsLockInv, TaskLockInv, CompletionInv, Free, Cleaner
    <3>3. ClearedInv'
      BY <2>1, <2>2, <2>3 DEF ClearedInv, CommandsLockInv, Free, QInv, TypeOK
    <3>4. \A j : Indexing(j) <=> Indexing(j)'
      BY <2>2 DEF Indexing
    <3>5. RemovalInv' /\ IndexCoversCommands'
      BY <2>2, <3>1, <3>4 DEF RemovalInv, IndexCoversCommands
    <3> QED  BY <3>2, <3>3, <3>5
  <2>4. CASE cleaner' = "run" /\ cleaning' = Nil /\ UNCHANGED <<commandsLock, commands>>
    <3>1. CommandsLockInv' /\ ClearedInv'
      BY <1>10, <2>2, <2>4 DEF CleanupEntry, CommandsLockInv, ClearedInv, Free, Cleaner
    <3>2. CompletionInv'
      BY <2>2, <2>4 DEF CompletionInv, Nil, QInv, TypeOK
    <3> QED  BY <2>2, <2>4, <3>1, <3>2, IndexFrame
  <2> QED  BY <1>10, <2>3, <2>4 DEF CleanupEntry
<1>11. ASSUME CleanupIndex PROVE IndexInv'
  <2> DEFINE id == idOf[cleaning]
             g == extractTaskID(id)
  <2>1. cleaning \in Obj /\ id \in Ids /\ g \in Groups
    BY <1>11, GroupType DEF CleanupIndex, QInv, TypeOK, CleaningInv
  <2>2. /\ cleaner = "index" /\ taskLock = Free
        /\ taskCommands' = [taskCommands EXCEPT ![g] = RemoveFirst(@, id)]
        /\ commandsLock' = Free /\ cleaner' = "run" /\ cleaning' = Nil
        /\ UNCHANGED <<commands, taskLock, completeChan, pushed, idOf, clientVars, qctx>>
    BY <1>11 DEF CleanupIndex
  <2>3. commandsLock = Cleaner /\ (\A d \in Clients : pc[d] # "remove") /\ id \notin PresentIds
    BY <2>2 DEF CommandsLockInv, TaskLockInv, Free, ClearedInv, PresentIds
  <2>4. CommandsLockInv' /\ TaskLockInv' /\ ClearedInv' /\ RemovalInv'
    BY <2>2, <2>3 DEF CommandsLockInv, TaskLockInv, ClearedInv, RemovalInv, Free, Cleaner
  <2>5. CompletionInv'
    BY <2>2 DEF CompletionInv, Nil, QInv, TypeOK
  <2>6. ASSUME NEW j \in PresentIds', ~Indexing(j) PROVE Listed(j, taskCommands'[extractTaskID(j)])
    <3>1. j \in PresentIds /\ j # id /\ extractTaskID(j) \in Groups
      BY <2>2, <2>3, GroupType DEF PresentIds
    <3>2. /\ taskCommands'[g] = RemoveFirst(taskCommands[g], id) /\ taskCommands[g] \in Seq(Ids)
          /\ \A h \in Groups : h # g => taskCommands'[h] = taskCommands[h]
      BY <2>1, <2>2 DEF QInv, TypeOK
    <3>3. Listed(j, taskCommands[extractTaskID(j)])
      BY <2>6, <3>1, IndexListed
    <3>4. CASE extractTaskID(j) = g
      <4>1. Listed(j, taskCommands[g])
        BY <3>3, <3>4
      <4> HIDE DEF g, id
      <4>2. Listed(j, RemoveFirst(taskCommands[g], id))
        BY <3>1, <3>2, <4>1, ListedRemoveFirst
      <4> QED  BY <3>2, <3>4, <4>2
    <3>5. CASE extractTaskID(j) # g
      BY <3>1, <3>2, <3>3, <3>5
    <3> QED  BY <3>4, <3>5
  <2>7. IndexCoversCommands'
    <3>1. \A j : Indexing(j) <=> Indexing(j)'
      BY <2>2 DEF Indexing
    <3> QED  BY <2>6, <3>1 DEF IndexCoversCommands, Listed
  <2> QED  BY <2>4, <2>5, <2>7
<1>12. ASSUME CleanerReceive PROVE IndexInv'
  <2>1. Head(completeChan) \in 1..pushed /\ Tail(completeChan) \in Seq(1..pushed)
    BY <1>12, HeadTailProperties DEF CleanerReceive, CompletionInv
  <2>2. CompletionInv'
    BY <1>12, <2>1 DEF CleanerReceive, CompletionInv
  <2>3. CommandsLockInv' /\ ClearedInv'
    BY <1>12 DEF CleanerReceive, CommandsLockInv, ClearedInv
  <2> QED  BY <1>12, <2>2, <2>3, IndexFrame DEF CleanerReceive
<1>13. ASSUME ConsumerTakeCompletion PROVE IndexInv'
  <2>1. Tail(completeChan) \in Seq(1..pushed)
    BY <1>13, HeadTailProperties DEF ConsumerTakeCompletion, CompletionInv
  <2>2. CompletionInv' /\ CommandsLockInv' /\ ClearedInv'
    BY <1>13, <2>1 DEF ConsumerTakeCompletion, CompletionInv, CommandsLockInv, ClearedInv
  <2> QED  BY <1>13, <2>2, IndexFrame DEF ConsumerTakeCompletion
<1>14. ASSUME NEW o \in Obj, TimerExpired(o) PROVE IndexInv'
  <2>1. idOf[o] \in Ids /\ "Failed" \in Terminal
    BY DEF QInv, TypeOK, Terminal
  <2>2. CompletionInv'
    BY <1>14, <2>1, CompletionKept DEF TimerExpired
  <2>3. CommandsLockInv' /\ ClearedInv'
    BY <1>14 DEF TimerExpired, CommandsLockInv, ClearedInv
  <2> QED  BY <1>14, <2>2, <2>3, IndexFrame DEF TimerExpired
<1>15. ASSUME NEW id \in Ids, NEW s \in Terminal, ConsumerMarkCompleted(id, s) PROVE IndexInv'
  <2>1. CompletionInv'
    BY <1>15, CompletionKept DEF ConsumerMarkCompleted
  <2>2. CommandsLockInv' /\ ClearedInv'
    BY <1>15 DEF ConsumerMarkCompleted, CommandsLockInv, ClearedInv
  <2> QED  BY <1>15, <2>1, <2>2, IndexFrame DEF ConsumerMarkCompleted
<1>16. ASSUME Start PROVE IndexInv'
  <2>1. CompletionInv' /\ CommandsLockInv' /\ ClearedInv'
    BY <1>16 DEF Start, CompletionInv, CommandsLockInv, ClearedInv
  <2> QED  BY <1>16, <2>1, IndexFrame DEF Start
<1>17. ASSUME CleanerExit PROVE IndexInv'
  <2>1. CompletionInv' /\ CommandsLockInv' /\ ClearedInv'
    BY <1>17 DEF CleanerExit, CompletionInv, CommandsLockInv, ClearedInv
  <2> QED  BY <1>17, <2>1, IndexFrame DEF CleanerExit
\* The other steps leave everything in the invariant alone but the context of the queue.
<1>18. ASSUME UNCHANGED <<mapVars, lockVars, completeChan, pushed, idOf, clientVars, cleanerVars>>,
              qctx' = "none" => qctx = "none"
       PROVE  IndexInv'
  <2>1. CompletionInv' /\ CommandsLockInv' /\ ClearedInv'
    BY <1>18 DEF CompletionInv, CommandsLockInv, ClearedInv
  <2> QED  BY <1>18, <2>1, IndexFrame
<1>19. ASSUME StopBegin \/ StopCancelCommands \/ StopClose \/ StopReturn \/ ParentCancel PROVE IndexInv'
  BY <1>19, <1>18 DEF StopBegin, StopCancelCommands, StopClose, StopReturn, ParentCancel, CancelContext
<1>20. ASSUME SenderReceive \/ SenderReceiveNil \/ SenderExit \/ CleanerReceiveNil \/ ConsumerTakeCommand
       PROVE  IndexInv'
  BY <1>20, <1>18 DEF SenderReceive, SenderReceiveNil, SenderExit, CleanerReceiveNil, ConsumerTakeCommand
<1>21. ASSUME NEW o \in Obj, TimerMarkSent(o) \/ Deadline(o) \/ TimerCancelled(o) PROVE IndexInv'
  BY <1>21, <1>18 DEF TimerMarkSent, Deadline, TimerCancelled
<1>22. ASSUME NEW id \in Ids, ConsumerMarkStarted(id) PROVE IndexInv'
  BY <1>22, <1>18 DEF ConsumerMarkStarted
<1>23. CASE UNCHANGED qvars
  BY <1>23, <1>18 DEF qvars
<1> HIDE DEF IndexInv
<1> QED
  BY <1>1, <1>2, <1>3, <1>4, <1>5, <1>6, <1>7, <1>8, <1>9, <1>10, <1>11, <1>12, <1>13, <1>14,
          <1>15, <1>16, <1>17, <1>19, <1>20, <1>21, <1>22, <1>23
     DEF Next, QueueStep, Client, Stopper, Sender, Timer, CleanerStep, Consumer

\* Every stored command stays reachable through its task, for any number of IDs, callers and
\* pushes: neither cleanupCompletedCommand, RemoveByTaskID, Clear nor a Push that replaces an
\* entry ever leaves a command in the map that RemoveByTaskID would not find.
THEOREM IndexCovered == Spec => []IndexCoversCommands
<1>1. IndexInv => IndexCoversCommands
  BY DEF IndexInv
<1> QED  BY QInvInit, QInvStep, IndexInvInit, IndexInvStep, <1>1, PTL DEF Spec
=============================================================================
