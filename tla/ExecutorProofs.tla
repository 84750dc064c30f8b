--------------------------- MODULE ExecutorProofs ---------------------------
(***************************************************************************)
(* Proofs about the command executor with the queue it owns, for any IDs,    *)
(* devices, clients, pushes and capacities: the executor uses the queue as   *)
(* the queue's specification allows, it is type-correct, every success it    *)
(* reports has a device write of its own, and a write takes two pushes.      *)
(***************************************************************************)
EXTENDS CommandExecutor, ExecutionQueueProofs

-----------------------------------------------------------------------------
(* The inductive invariant *)

\* A command neither received from sendChan nor in it.
Fresh(o) == o \notin Range(sendChan) /\ timer[o] = "none" /\ worker[o] = "none"

\* A command is received once: from Push it goes into sendChan, and from there to a timer
\* goroutine or to a processCommand goroutine, never to both.
RouteInv ==
  /\ Distinct(sendChan) /\ Range(sendChan) \subseteq 1..pushed
  /\ \A o \in Obj : timer[o] # "none" => o <= pushed /\ o \notin Range(sendChan) /\ worker[o] = "none"
  /\ \A o \in Obj : worker[o] # "none" => o <= pushed /\ o \notin Range(sendChan)
  /\ \A c \in Clients : arg[c] # Nil => arg[c] <= pushed /\ Fresh(arg[c])
  /\ \A c, d \in Clients : arg[c] = arg[d] /\ arg[c] # Nil => c = d

\* The commands with an ID whose timer has tried to mark them, whose processCommand was started
\* and has not written, and whose processCommand is past the write.
Timed(id) == {o \in 1..pushed : idOf[o] = id /\ timer[o] \in {"wait", "done"}}
Started(id) == {o \in 1..pushed : idOf[o] = id /\ worker[o] \in {"device", "write"}}
Past(id) == {o \in 1..pushed : idOf[o] = id /\ worker[o] \in {"ok", "fail", "done"}}

\* Every start uses up the Sent mark of one timer, and every write one start.
CountInv ==
  \A id \in Ids :
    /\ writes[id] + Cardinality(Started(id)) + (IF CanMarkStarted(id) THEN 1 ELSE 0)
         <= Cardinality(Timed(id))
    /\ writes[id] <= Cardinality(Past(id))

\* The commands with an ID whose processCommand has written and not reported it yet.
Owed(id) == {o \in 1..pushed : idOf[o] = id /\ worker[o] = "ok"}

\* Every success that was reported, or is about to be, has a write of its own.
WrittenInv ==
  /\ \A o \in Obj : status[o] = "Completed" => o <= pushed
  /\ \A id \in Ids : Cardinality(Successes(id)) + Cardinality(Owed(id)) <= writes[id]

XInv == QInv /\ XTypeOK /\ RouteInv /\ CountInv /\ WrittenInv

-----------------------------------------------------------------------------
(* The executor and the queue *)

\* Every step of the executor and its queue is a step the queue's specification allows, or
\* leaves the queue alone.
LEMMA ExecutorStep == QInv /\ [XNext]_vars => [Next]_qvars
<1> SUFFICES ASSUME QInv, XNext PROVE [Next]_qvars
  BY DEF vars
<1>0. ~crashed /\ \A o \in Obj : idOf[o] \in Ids
  BY DEF XNext, QInv, TypeOK
<1>1. CASE XStart \/ HandleEvent \/ XStopper
  BY <1>0, <1>1 DEF XStart, HandleEvent, SystemStartEvent, SystemStopEvent, XStopper, XStopBegin, XCancel, XStopQueue, XStopDevices,
                    XStopReturn, Next, QueueStep, Stopper, Consumer
<1>2. CASE \E d \in Devices : AddDevice(d) \/ RemoveDevice(d)
  BY <1>2 DEF AddDevice, RemoveDevice
<1>3. CASE Dispatcher \/ Listener
  BY <1>0, <1>3 DEF Dispatcher, DispatcherReceive, DispatcherExit, Listener, ListenerReceive, ListenerExit,
                    Next, Consumer
<1>4. ASSUME NEW o \in Obj, Worker(o) PROVE [Next]_qvars
  <2>1. CASE WorkerStart(o)
    BY <1>0, <2>1 DEF WorkerStart, Next, Consumer
  <2>2. CASE WorkerDevice(o) \/ WorkerWrite(o)
    BY <2>2 DEF WorkerDevice, WorkerWrite
  <2>3. CASE WorkerComplete(o)
    <3>1. PICK r \in Terminal : ConsumerMarkCompleted(idOf[o], r)
      BY <2>3 DEF WorkerComplete, Terminal
    <3> QED  BY <1>0, <3>1 DEF Next, Consumer
  <2> QED  BY <1>4, <2>1, <2>2, <2>3 DEF Worker
<1>5. CASE QueueGoroutines
  BY <1>0, <1>5 DEF QueueGoroutines, Next, QueueStep
<1> QED  BY <1>1, <1>2, <1>3, <1>4, <1>5 DEF XNext

\* The executor with its queue implements the queue's specification, in which the consumer
\* behind the channels may do anything: what holds of the queue holds of the composition.
THEOREM ExecutorUsesQueue == XSpec => Spec
<1>1. XInit => Init
  BY DEF XInit
<1> QED  BY <1>1, QInvInit, QInvStep, ExecutorStep, PTL DEF XSpec, Spec

-----------------------------------------------------------------------------
(* Types *)

\* The executor's own variables keep their types.
LEMMA XTypeStep == QInv' /\ XTypeOK /\ [XNext]_vars => XTypeOK'
<1> SUFFICES ASSUME QInv', XTypeOK, [XNext]_vars PROVE XTypeOK'
  OBVIOUS
<1>0. TypeOK'
  BY DEF QInv
<1>1. xrunning' \in BOOLEAN /\ xctx' \in {"none", "live", "cancelled"}
  <2> USE DEF XTypeOK, xvars, vars
  <2>1. CASE XStart \/ HandleEvent \/ XStopper
    BY <2>1 DEF XStart, HandleEvent, SystemStartEvent, SystemStopEvent, XStopper, XStopBegin, XCancel, XStopQueue, XStopDevices, XStopReturn
  <2>2. CASE ~(XStart \/ HandleEvent \/ XStopper)
    BY <2>2 DEF XNext, AddDevice, RemoveDevice, Dispatcher, DispatcherReceive, DispatcherExit,
                Listener, ListenerReceive, ListenerExit, Worker, WorkerStart, WorkerDevice, WorkerWrite,
                WorkerComplete, QueueGoroutines
  <2> QED  BY <2>1, <2>2
<1>2. /\ dispatcher' \in {"off", "run"} /\ listener' \in {"off", "run"}
      /\ xstopper' \in {"idle", "queue", "devices", "wait"}
      /\ devices' \subseteq Devices /\ connected' \subseteq Devices
  <2> USE DEF XTypeOK, xvars, vars
  <2>1. CASE XStart \/ HandleEvent \/ XStopper
    BY <2>1 DEF XStart, HandleEvent, SystemStartEvent, SystemStopEvent, XStopper, XStopBegin, XStopQueue, XStopDevices, XStopReturn
  <2>2. CASE ~(XStart \/ HandleEvent \/ XStopper)
    BY <2>2 DEF XNext, AddDevice, RemoveDevice, Dispatcher, DispatcherReceive, DispatcherExit,
                Listener, ListenerReceive, ListenerExit, Worker, WorkerStart, WorkerDevice, WorkerWrite,
                WorkerComplete, QueueGoroutines
  <2> QED  BY <2>1, <2>2
<1>3. /\ worker' \in [Obj -> {"none", "start", "device", "write", "ok", "fail", "done"}]
      /\ writes' \in [Ids -> Nat]
  <2> USE DEF XTypeOK, xvars, vars
  <2>1. CASE XStart \/ HandleEvent \/ XStopper
    BY <2>1 DEF XStart, HandleEvent, SystemStartEvent, SystemStopEvent, XStopper, XStopBegin, XStopQueue, XStopDevices, XStopReturn
  <2>2. CASE ~(XStart \/ HandleEvent \/ XStopper)
    BY <2>2 DEF XNext, AddDevice, RemoveDevice, Dispatcher, DispatcherReceive, DispatcherExit,
                Listener, ListenerReceive, ListenerExit, Worker, WorkerStart, WorkerDevice, WorkerWrite,
                WorkerComplete, QueueGoroutines
  <2> QED  BY <2>1, <2>2
<1> QED  BY <1>0, <1>1, <1>2, <1>3 DEF XTypeOK

\* The executor is type-correct with the queue, whoever receives which command.
THEOREM ExecutorTypeCorrect == XSpec => []XTypeOK
<1>1. XInit => QInv /\ XTypeOK
  <2> SUFFICES ASSUME XInit PROVE QInv /\ XTypeOK
    OBVIOUS
  <2>1. QInv /\ TypeOK
    BY QInvInit DEF XInit, QInv
  <2>2. writes \in [Ids -> Nat]
    BY DEF XInit
  <2> QED  BY <2>1, <2>2 DEF XInit, XTypeOK
<1>2. QInv /\ [XNext]_vars => QInv'
  BY ExecutorStep, QInvStep
<1> QED  BY <1>1, <1>2, XTypeStep, PTL DEF XSpec

-----------------------------------------------------------------------------
(* Counting *)

\* Sets of allocated commands can be counted.
LEMMA CountType ==
  ASSUME NEW n \in Nat, NEW S \in SUBSET (1..n)
  PROVE  IsFiniteSet(S) /\ Cardinality(S) \in Nat
<1>1. IsFiniteSet(1..n)
  BY FS_Interval
<1>2. IsFiniteSet(S)
  BY <1>1, FS_Subset
<1> QED  BY <1>2, FS_CardinalityType

\* The counted sets and their sizes, before a step.
LEMMA CountedType ==
  ASSUME pushed \in Nat, NEW id
  PROVE  /\ IsFiniteSet(Timed(id)) /\ Cardinality(Timed(id)) \in Nat
         /\ IsFiniteSet(Started(id)) /\ Cardinality(Started(id)) \in Nat
         /\ IsFiniteSet(Past(id)) /\ Cardinality(Past(id)) \in Nat
         /\ IsFiniteSet(Successes(id)) /\ Cardinality(Successes(id)) \in Nat
         /\ IsFiniteSet(Owed(id)) /\ Cardinality(Owed(id)) \in Nat
<1>1. Timed(id) \in SUBSET (1..pushed)
  BY DEF Timed
<1>2. Started(id) \in SUBSET (1..pushed)
  BY DEF Started
<1>3. Past(id) \in SUBSET (1..pushed)
  BY DEF Past
<1>4. Successes(id) \in SUBSET (1..pushed) /\ Owed(id) \in SUBSET (1..pushed)
  BY DEF Successes, Owed
<1> QED  BY <1>1, <1>2, <1>3, <1>4, CountType

\* The same after it.
LEMMA CountedTypeNext ==
  ASSUME pushed' \in Nat, NEW id
  PROVE  /\ IsFiniteSet(Timed(id)') /\ Cardinality(Timed(id)') \in Nat
         /\ IsFiniteSet(Started(id)') /\ Cardinality(Started(id)') \in Nat
         /\ IsFiniteSet(Past(id)') /\ Cardinality(Past(id)') \in Nat
         /\ IsFiniteSet(Successes(id)') /\ Cardinality(Successes(id)') \in Nat
         /\ IsFiniteSet(Owed(id)') /\ Cardinality(Owed(id)') \in Nat
<1>1. Timed(id)' \in SUBSET (1..pushed')
  BY DEF Timed
<1>2. Started(id)' \in SUBSET (1..pushed')
  BY DEF Started
<1>3. Past(id)' \in SUBSET (1..pushed')
  BY DEF Past
<1>4. Successes(id)' \in SUBSET (1..pushed') /\ Owed(id)' \in SUBSET (1..pushed')
  BY DEF Successes, Owed
<1> QED  BY <1>1, <1>2, <1>3, <1>4, CountType

\* One ID after a step that writes nothing, starts nothing and marks nothing Sent.
LEMMA CountKept ==
  ASSUME XInv, pushed' \in Nat, NEW id \in Ids,
         Started(id)' \subseteq Started(id), Timed(id) \subseteq Timed(id)', Past(id) \subseteq Past(id)',
         writes'[id] = writes[id], CanMarkStarted(id)' => CanMarkStarted(id)
  PROVE  /\ writes'[id] + Cardinality(Started(id)') + (IF CanMarkStarted(id)' THEN 1 ELSE 0)
              <= Cardinality(Timed(id)')
         /\ writes'[id] <= Cardinality(Past(id)')
<1>0. pushed \in Nat
  BY QueueAssumption DEF XInv, QInv, TypeOK
<1> DEFINE a == Cardinality(Started(id))
           a1 == Cardinality(Started(id)')
           b == Cardinality(Timed(id))
           b1 == Cardinality(Timed(id)')
           p == Cardinality(Past(id))
           p1 == Cardinality(Past(id)')
           w == writes[id]
<1>1. a \in Nat /\ b \in Nat /\ p \in Nat /\ a1 \in Nat /\ b1 \in Nat /\ p1 \in Nat
  BY <1>0, CountedType, CountedTypeNext
<1>2. a1 <= a
  BY <1>0, CountedType, FS_Subset
<1>3. b <= b1 /\ p <= p1
  BY CountedTypeNext, FS_Subset
<1>4. w + a + (IF CanMarkStarted(id) THEN 1 ELSE 0) <= b /\ w <= p /\ w \in Nat
  BY DEF XInv, CountInv, XTypeOK
<1> HIDE DEF a, a1, b, b1, p, p1, w
<1>5. w + a1 + (IF CanMarkStarted(id)' THEN 1 ELSE 0) <= b1 /\ w <= p1
  BY <1>1, <1>2, <1>3, <1>4
<1> QED  BY <1>5 DEF a1, b1, p1, w

\* A step that reports no success, writes nothing and allocates at most commands without one.
LEMMA WrittenKept ==
  ASSUME XInv, pushed' \in Nat,
         \A o \in Obj : status'[o] = "Completed" => o <= pushed',
         \A id \in Ids : /\ Successes(id)' \subseteq Successes(id) /\ Owed(id)' \subseteq Owed(id)
                         /\ writes'[id] = writes[id]
  PROVE  WrittenInv'
<1>0. pushed \in Nat
  BY QueueAssumption DEF XInv, QInv, TypeOK
<1>1. ASSUME NEW id \in Ids PROVE Cardinality(Successes(id)') + Cardinality(Owed(id)') <= writes'[id]
  <2> DEFINE s == Cardinality(Successes(id))
             s1 == Cardinality(Successes(id)')
             q == Cardinality(Owed(id))
             q1 == Cardinality(Owed(id)')
             w == writes[id]
  <2>1. s \in Nat /\ q \in Nat /\ s1 \in Nat /\ q1 \in Nat /\ w \in Nat
    BY <1>0, CountedType, CountedTypeNext DEF XInv, XTypeOK
  <2>2. s1 <= s /\ q1 <= q
    BY <1>0, CountedType, FS_Subset
  <2>3. s + q <= w
    BY DEF XInv, WrittenInv
  <2> HIDE DEF s, s1, q, q1, w
  <2>4. s1 + q1 <= w
    BY <2>1, <2>2, <2>3
  <2> QED  BY <2>4 DEF s1, q1, w
<1> QED  BY <1>1 DEF WrittenInv

\* The part of the invariant that is about the executor's goroutines.
Routed == RouteInv /\ CountInv /\ WrittenInv

-----------------------------------------------------------------------------
(* Steps *)

\* Steps that receive, start, write and complete nothing: life cycle, devices, removals,
\* clean-up, deadlines and the end of a timer.
LEMMA QuietKeeps ==
  ASSUME XInv, QInv', XTypeOK', UNCHANGED <<sendChan, worker, arg, pushed, idOf, writes>>,
         \A id \in Ids : commands'[id] \in {commands[id], Nil},
         \A o \in Obj : status'[o] \in {status[o], "Failed"},
         \A o \in Obj : timer'[o] = timer[o] \/ (timer[o] \in {"mark", "wait"} /\ timer'[o] = "done")
  PROVE  Routed'
<1>0. pushed \in 0..MaxPush /\ pushed \in Nat /\ 1..pushed \subseteq Obj
  BY QueueAssumption DEF XInv, QInv, TypeOK, Obj
<1>1. RouteInv'
  <2>1. \A c \in Clients : arg[c] # Nil => arg[c] \in Obj
    BY DEF XInv, QInv, TypeOK
  <2> QED  BY <2>1 DEF XInv, RouteInv, Fresh
<1>2. CountInv'
  <2> SUFFICES ASSUME NEW id \in Ids
               PROVE  /\ writes'[id] + Cardinality(Started(id)') + (IF CanMarkStarted(id)' THEN 1 ELSE 0)
                           <= Cardinality(Timed(id)')
                      /\ writes'[id] <= Cardinality(Past(id)')
    BY DEF CountInv
  <2>1. Started(id)' = Started(id) /\ Past(id)' = Past(id)
    BY DEF Started, Past
  <2>2. Timed(id) \subseteq Timed(id)'
    BY <1>0 DEF Timed
  <2>3. CanMarkStarted(id)' => CanMarkStarted(id)
    BY DEF CanMarkStarted, XInv, QInv, TypeOK
  <2> QED  BY <1>0, <2>1, <2>2, <2>3, CountKept
<1>3. WrittenInv'
  <2>1. \A id \in Ids : Successes(id)' \subseteq Successes(id) /\ Owed(id)' \subseteq Owed(id)
    BY <1>0 DEF Successes, Owed
  <2>2. \A o \in Obj : status'[o] = "Completed" => o <= pushed
    BY DEF XInv, WrittenInv
  <2> QED  BY <1>0, <2>1, <2>2, WrittenKept
<1> QED  BY <1>1, <1>2, <1>3 DEF Routed

\* A step after which the counted sets, the writes and the marks are as before.
LEMMA SameCounts ==
  ASSUME XInv, pushed' \in Nat, UNCHANGED writes,
         \A id \in Ids : /\ Started(id)' = Started(id) /\ Timed(id)' = Timed(id) /\ Past(id)' = Past(id)
                         /\ CanMarkStarted(id)' => CanMarkStarted(id)
  PROVE  CountInv'
<1> SUFFICES ASSUME NEW id \in Ids
             PROVE  /\ writes'[id] + Cardinality(Started(id)') + (IF CanMarkStarted(id)' THEN 1 ELSE 0)
                         <= Cardinality(Timed(id)')
                    /\ writes'[id] <= Cardinality(Past(id)')
  BY DEF CountInv
<1> QED  BY CountKept

\* Push allocates a command, gives it up, or stores it.
LEMMA PushKeeps ==
  ASSUME XInv, QInv', XTypeOK', NEW c \in Clients, UNCHANGED xvars,
         (\E id \in Ids : PushBegin(c, id)) \/ PushRejected(c) \/ PushStore(c)
  PROVE  Routed'
<1>0. /\ pushed \in 0..MaxPush /\ pushed \in Nat /\ pushed' \in Nat /\ 1..pushed \subseteq Obj
      /\ UNCHANGED <<worker, writes>>
  BY QueueAssumption DEF XInv, QInv, TypeOK, Obj, xvars
<1>1. CASE \E id \in Ids : PushBegin(c, id)
  <2>1. PICK k \in Ids : PushBegin(c, k)
    BY <1>1
  <2> DEFINE n == pushed + 1
  <2>2. /\ n \in Obj /\ pushed' = n /\ idOf' = [idOf EXCEPT ![n] = k] /\ arg' = [arg EXCEPT ![c] = n]
        /\ UNCHANGED <<sendChan, timer, commands, status>> /\ n # Nil
    BY <1>0, <2>1, QueueAssumption DEF PushBegin, chanVars, mapVars, Obj, Nil
  <2>3. timer[n] = "none" /\ worker[n] = "none" /\ n \notin Range(sendChan)
    BY <1>0, <2>2 DEF XInv, RouteInv
  <2>4. \A o \in 1..n : o = n \/ o \in 1..pushed
    BY <1>0
  <2>5. 1..pushed \subseteq 1..n /\ \A o \in Obj : o <= pushed => o <= n
    BY <1>0 DEF Obj
  <2>6. n \notin 1..pushed
    BY <1>0
  <2>7. \A o \in 1..pushed : idOf'[o] = idOf[o]
    BY <1>0, <2>2, <2>6 DEF XInv, QInv, TypeOK
  <2> HIDE DEF n
  <2>8. RouteInv'
    <3>1. Range(sendChan)' = Range(sendChan)
      BY <2>2
    <3>2. \A d \in Clients : arg[d] # Nil => arg[d] \in Obj /\ arg[d] <= pushed /\ arg[d] \in 1..pushed
      BY <1>0 DEF XInv, QInv, TypeOK, RouteInv, Obj
    <3>3. \A d \in Clients : arg'[d] = IF d = c THEN n ELSE arg[d]
      BY <2>2 DEF XInv, QInv, TypeOK
    <3>4. \A o \in Obj : timer'[o] # "none" => o <= n /\ o \notin Range(sendChan) /\ worker[o] = "none"
      BY <2>2, <2>5 DEF XInv, RouteInv
    <3>5. \A o \in Obj : worker[o] # "none" => o <= n /\ o \notin Range(sendChan)
      BY <2>5 DEF XInv, RouteInv
    <3>6. \A d \in Clients : arg'[d] # Nil => arg'[d] <= n /\ Fresh(arg[d])'
      <4> SUFFICES ASSUME NEW d \in Clients, arg'[d] # Nil
                   PROVE  arg'[d] <= n /\ arg'[d] \notin Range(sendChan)' /\ timer'[arg'[d]] = "none" /\ worker'[arg'[d]] = "none"
        BY DEF Fresh
      <4>1. CASE d = c
        BY <1>0, <2>2, <2>3, <3>1, <3>3, <4>1 DEF Obj
      <4>2. CASE d # c
        BY <1>0, <2>2, <2>5, <3>1, <3>2, <3>3, <4>2 DEF XInv, RouteInv, Fresh
      <4> QED  BY <4>1, <4>2
    <3>7. \A d, e \in Clients : arg'[d] = arg'[e] /\ arg'[d] # Nil => d = e
      BY <2>6, <3>2, <3>3 DEF XInv, RouteInv
    <3>8. Distinct(sendChan)' /\ Range(sendChan)' \subseteq 1..n
      BY <2>2, <2>5, <3>1 DEF XInv, RouteInv, Distinct
    <3> QED  BY <1>0, <2>2, <3>1, <3>4, <3>5, <3>6, <3>7, <3>8 DEF RouteInv
  <2>9. CountInv'
    <3>1. \A id \in Ids : Started(id)' = Started(id) /\ Timed(id)' = Timed(id) /\ Past(id)' = Past(id)
      BY <1>0, <2>2, <2>3, <2>4, <2>5, <2>7 DEF Started, Timed, Past
    <3>2. \A id \in Ids : CanMarkStarted(id)' => CanMarkStarted(id)
      BY <2>2 DEF CanMarkStarted
    <3> QED  BY <1>0, <3>1, <3>2, SameCounts
  <2>10. WrittenInv'
    <3>1. status[n] # "Completed"
      BY <1>0, <2>2, <2>6 DEF XInv, WrittenInv, Obj
    <3>2. \A id \in Ids : Successes(id)' \subseteq Successes(id) /\ Owed(id)' \subseteq Owed(id)
      BY <1>0, <2>2, <2>3, <2>4, <2>7, <3>1 DEF Successes, Owed
    <3>3. \A o \in Obj : status'[o] = "Completed" => o <= pushed'
      BY <2>2, <2>5 DEF XInv, WrittenInv
    <3> QED  BY <1>0, <3>2, <3>3, WrittenKept
  <2> QED  BY <2>8, <2>9, <2>10 DEF Routed
<1>2. CASE PushRejected(c)
  <2>1. arg' = [arg EXCEPT ![c] = Nil] /\ UNCHANGED <<sendChan, timer, commands, status, pushed, idOf>>
    BY <1>2 DEF PushRejected, chanVars, mapVars, objVars
  <2>2. RouteInv'
    BY <1>0, <2>1 DEF XInv, QInv, TypeOK, RouteInv, Fresh
  <2>3. CountInv'
    BY <1>0, <2>1, SameCounts DEF Started, Timed, Past, CanMarkStarted
  <2> QED  BY <1>0, <2>1, <2>2, <2>3 DEF XInv, Routed, WrittenInv, Successes, Owed
<1>3. CASE PushStore(c)
  <2> DEFINE a == arg[c]
  <2>1. /\ a \in Obj /\ idOf[a] \in Ids /\ commands' = [commands EXCEPT ![idOf[a]] = a]
        /\ status' = [status EXCEPT ![a] = "Pending"]
        /\ UNCHANGED <<sendChan, timer, arg, pushed, idOf>>
    BY <1>0, <1>3 DEF PushStore, chanVars, XInv, QInv, ArgInv, TypeOK
  <2>2. \A id \in Ids : commands'[id] = IF id = idOf[a] THEN a ELSE commands[id]
    BY <2>1 DEF XInv, QInv, TypeOK
  <2>3. \A o \in Obj : status'[o] = IF o = a THEN "Pending" ELSE status[o]
    BY <2>1 DEF XInv, QInv, TypeOK
  <2> HIDE DEF a
  <2>4. \A id \in Ids : id # idOf[a] /\ commands[id] # Nil =>
          commands'[id] = commands[id] /\ commands[id] \in Obj /\ commands[id] # a
    BY <1>0, <2>2 DEF XInv, QInv, TypeOK, EntryInv
  <2>5. RouteInv'
    BY <1>0, <2>1 DEF XInv, RouteInv, Fresh
  <2>6. CountInv'
    <3>1. \A id \in Ids : CanMarkStarted(id)' => CanMarkStarted(id)
      BY <2>1, <2>2, <2>3, <2>4 DEF CanMarkStarted
    <3> QED  BY <1>0, <2>1, <3>1, SameCounts DEF Started, Timed, Past
  <2>7. WrittenInv'
    <3>1. \A id \in Ids : Successes(id)' \subseteq Successes(id) /\ Owed(id)' \subseteq Owed(id)
      BY <1>0, <2>1, <2>3 DEF Successes, Owed
    <3>2. \A o \in Obj : status'[o] = "Completed" => o <= pushed
      BY <2>3 DEF XInv, WrittenInv
    <3> QED  BY <1>0, <2>1, <3>1, <3>2, WrittenKept
  <2> QED  BY <2>5, <2>6, <2>7 DEF Routed
<1> QED  BY <1>1, <1>2, <1>3

\* Push puts its command into sendChan (or panics, or waits for itself).
LEMMA SendKeeps ==
  ASSUME XInv, QInv', XTypeOK', NEW c \in Clients, UNCHANGED xvars, PushSend(c)
  PROVE  Routed'
<1>0. /\ pushed \in 0..MaxPush /\ pushed \in Nat /\ pushed' \in Nat
      /\ UNCHANGED <<worker, writes, commands, status, timer, pushed, idOf>>
      /\ sendChan \in Seq(Obj) /\ Distinct(sendChan)
  BY QueueAssumption DEF XInv, QInv, TypeOK, RouteInv, xvars, PushSend, objVars
<1>1. CountInv'
  BY <1>0, SameCounts DEF Started, Timed, Past, CanMarkStarted
<1>2. WrittenInv'
  BY <1>0 DEF XInv, WrittenInv, Successes, Owed
<1>3. CASE UNCHANGED <<sendChan, arg>>
  BY <1>0, <1>1, <1>2, <1>3 DEF XInv, Routed, RouteInv, Fresh
<1>4. CASE sendChan' = Append(sendChan, arg[c]) /\ arg' = [arg EXCEPT ![c] = Nil]
  <2> DEFINE a == arg[c]
  <2>1. /\ a \in Obj /\ a \in 1..pushed /\ a # Nil /\ a \notin Range(sendChan)
        /\ timer[a] = "none" /\ worker[a] = "none"
    BY <1>0 DEF PushSend, XInv, QInv, TypeOK, ArgInv, RouteInv, Fresh, Obj, Nil
  <2>2. sendChan' = Append(sendChan, a)
    BY <1>4
  <2>3. \A d \in Clients : arg'[d] = IF d = c THEN Nil ELSE arg[d]
    BY <1>4 DEF XInv, QInv, TypeOK
  <2>4. \A d \in Clients \ {c} : arg[d] # a
    BY <2>1 DEF XInv, RouteInv
  <2> HIDE DEF a
  <2>5. Distinct(Append(sendChan, a)) /\ Range(Append(sendChan, a)) = Range(sendChan) \cup {a}
    BY <1>0, <2>1, AppendDistinct
  <2>6. Distinct(sendChan)' /\ Range(sendChan)' = Range(sendChan) \cup {a}
    BY <2>2, <2>5 DEF Distinct
  <2>7. RouteInv'
    <3>1. Distinct(sendChan)' /\ Range(sendChan)' \subseteq 1..pushed
      BY <2>1, <2>6 DEF XInv, RouteInv
    <3>2. /\ \A o \in Obj : timer[o] # "none" => o <= pushed /\ o \notin Range(sendChan)' /\ worker[o] = "none"
          /\ \A o \in Obj : worker[o] # "none" => o <= pushed /\ o \notin Range(sendChan)'
      BY <2>1, <2>6 DEF XInv, RouteInv
    <3>3. \A d \in Clients : arg'[d] # Nil => arg'[d] <= pushed /\ Fresh(arg[d])'
      BY <1>0, <2>3, <2>4, <2>6 DEF XInv, RouteInv, Fresh
    <3>4. \A d, e \in Clients : arg'[d] = arg'[e] /\ arg'[d] # Nil => d = e
      BY <2>3 DEF XInv, RouteInv
    <3> QED  BY <1>0, <3>1, <3>2, <3>3, <3>4 DEF RouteInv
  <2> QED  BY <1>1, <1>2, <2>7 DEF Routed
<1> QED  BY <1>3, <1>4 DEF PushSend

\* processCommands or executeCommands receives a command.
LEMMA ReceiveKeeps ==
  ASSUME XInv, QInv', XTypeOK', (SenderReceive /\ UNCHANGED xvars) \/ (DispatcherReceive /\ sendChan # <<>>)
  PROVE  Routed'
<1> DEFINE h == Head(sendChan)
<1>0. /\ pushed \in 0..MaxPush /\ pushed \in Nat /\ pushed' \in Nat
      /\ sendChan \in Seq(Obj) /\ Distinct(sendChan) /\ sendChan # <<>> /\ sendChan' = Tail(sendChan)
      /\ UNCHANGED <<writes, commands, status, pushed, idOf, arg>>
  BY QueueAssumption
     DEF XInv, QInv, TypeOK, RouteInv, xvars, SenderReceive, DispatcherReceive, ConsumerTakeCommand,
         TakeCommand, mapVars, objVars, clientVars
<1>1. /\ Distinct(Tail(sendChan)) /\ h \in Obj /\ h \in Range(sendChan)
      /\ Range(Tail(sendChan)) = Range(sendChan) \ {h}
  BY <1>0, TailDistinct
<1>2. Distinct(sendChan)' /\ Range(sendChan)' = Range(sendChan) \ {h}
  BY <1>0, <1>1 DEF Distinct
<1>3. h \in 1..pushed /\ timer[h] = "none" /\ worker[h] = "none"
  BY <1>1 DEF XInv, RouteInv
<1>4. \A d \in Clients : arg[d] # Nil => arg[d] \in Obj /\ arg[d] # h
  BY <1>1 DEF XInv, QInv, TypeOK, RouteInv, Fresh
<1>5. \/ timer' = [timer EXCEPT ![h] = "mark"] /\ worker' = worker
      \/ worker' = [worker EXCEPT ![h] = "start"] /\ timer' = timer
  BY <1>0 DEF SenderReceive, DispatcherReceive, ConsumerTakeCommand, xvars, objVars
<1> HIDE DEF h
<1>6. /\ \A o \in Obj \ {h} : timer'[o] = timer[o] /\ worker'[o] = worker[o]
      /\ timer'[h] \in {"none", "mark"} /\ worker'[h] \in {"none", "start"}
      /\ timer'[h] = "none" \/ worker'[h] = "none"
  <2>1. /\ h \in Obj /\ timer \in [Obj -> {"none", "mark", "wait", "done"}]
        /\ worker \in [Obj -> {"none", "start", "device", "write", "ok", "fail", "done"}]
    BY <1>1 DEF XInv, XTypeOK, QInv, TypeOK
  <2>2. CASE timer' = [timer EXCEPT ![h] = "mark"] /\ worker' = worker
    BY <1>3, <2>1, <2>2
  <2>3. CASE worker' = [worker EXCEPT ![h] = "start"] /\ timer' = timer
    BY <1>3, <2>1, <2>3
  <2> QED  BY <1>5, <2>2, <2>3
<1>7. RouteInv'
  <2>1. Distinct(sendChan)' /\ Range(sendChan)' \subseteq 1..pushed
    BY <1>2 DEF XInv, RouteInv
  <2>2. \A o \in Obj : timer'[o] # "none" => o <= pushed /\ o \notin Range(sendChan)' /\ worker'[o] = "none"
    BY <1>0, <1>2, <1>3, <1>6 DEF XInv, RouteInv
  <2>3. \A o \in Obj : worker'[o] # "none" => o <= pushed /\ o \notin Range(sendChan)'
    BY <1>0, <1>2, <1>3, <1>6 DEF XInv, RouteInv
  <2>4. \A d \in Clients : arg'[d] # Nil => arg'[d] <= pushed /\ Fresh(arg[d])'
    BY <1>0, <1>2, <1>4, <1>6 DEF XInv, RouteInv, Fresh
  <2>5. \A d, e \in Clients : arg'[d] = arg'[e] /\ arg'[d] # Nil => d = e
    BY <1>0 DEF XInv, RouteInv
  <2> QED  BY <1>0, <2>1, <2>2, <2>3, <2>4, <2>5 DEF RouteInv
<1>8. CountInv'
  <2>1. 1..pushed \subseteq Obj
    BY <1>0, QueueAssumption DEF Obj
  <2>2. \A id \in Ids : Started(id)' = Started(id) /\ Timed(id)' = Timed(id) /\ Past(id)' = Past(id)
    BY <1>0, <1>3, <1>6, <2>1 DEF Started, Timed, Past
  <2> QED  BY <1>0, <2>2, SameCounts DEF CanMarkStarted
<1>9. WrittenInv'
  <2>1. 1..pushed \subseteq Obj
    BY <1>0, QueueAssumption DEF Obj
  <2>2. \A id \in Ids : Successes(id)' = Successes(id) /\ Owed(id)' \subseteq Owed(id)
    BY <1>0, <1>6, <2>1 DEF Successes, Owed
  <2>3. \A o \in Obj : status'[o] = "Completed" => o <= pushed
    BY <1>0 DEF XInv, WrittenInv
  <2> QED  BY <1>0, <2>2, <2>3, WrittenKept
<1> QED  BY <1>7, <1>8, <1>9 DEF Routed

\* A goroutine that goes on stays on its command's route.
LEMMA RouteKept ==
  ASSUME XInv, UNCHANGED <<sendChan, arg, pushed>>,
         \A o \in Obj : (timer'[o] = "none" <=> timer[o] = "none") /\ (worker'[o] = "none" <=> worker[o] = "none")
  PROVE  RouteInv'
<1>1. \A c \in Clients : arg[c] # Nil => arg[c] \in Obj
  BY DEF XInv, QInv, TypeOK
<1>2. Range(sendChan)' = Range(sendChan) /\ Distinct(sendChan)'
  BY DEF XInv, RouteInv, Distinct
<1>3. \A c \in Clients : arg[c] # Nil => Fresh(arg[c])'
  BY <1>1, <1>2 DEF XInv, RouteInv, Fresh
<1>4. \A o \in Obj : timer'[o] # "none" => o <= pushed /\ o \notin Range(sendChan) /\ worker'[o] = "none"
  BY DEF XInv, RouteInv
<1>5. \A o \in Obj : worker'[o] # "none" => o <= pushed /\ o \notin Range(sendChan)
  BY DEF XInv, RouteInv
<1> QED  BY <1>2, <1>3, <1>4, <1>5 DEF XInv, RouteInv

\* A timer marks the entry under its command's ID as Sent: one more start is possible.
LEMMA MarkKeeps ==
  ASSUME XInv, QInv', XTypeOK', UNCHANGED xvars, NEW o \in Obj, TimerMarkSent(o), MarkCommandSent(idOf[o]),
         timer' = [timer EXCEPT ![o] = "wait"]
  PROVE  Routed'
<1>k. PICK k \in Ids : k = idOf[o]
  BY DEF XInv, QInv, TypeOK
<1>e. PICK e \in Obj : e = commands[k]
  BY <1>k DEF XInv, QInv, TypeOK, MarkCommandSent, CanMarkSent
<1>0. /\ pushed \in Nat /\ pushed' \in Nat /\ status[e] = "Pending"
      /\ timer[o] = "mark" /\ status' = [status EXCEPT ![e] = "Sent"]
      /\ UNCHANGED <<worker, writes, sendChan, arg, pushed, idOf, commands>>
  BY <1>k, <1>e, QueueAssumption
     DEF XInv, QInv, TypeOK, xvars, TimerMarkSent, MarkCommandSent, CanMarkSent, mapVars, chanVars, clientVars
<1>1. o \in 1..pushed
  BY <1>0 DEF XInv, RouteInv, Obj
<1>2. timer'[o] = "wait" /\ \A p \in Obj \ {o} : timer'[p] = timer[p]
  BY DEF XInv, QInv, TypeOK
<1>3. status'[e] = "Sent" /\ \A p \in Obj \ {e} : status'[p] = status[p]
  BY <1>0 DEF XInv, QInv, TypeOK
<1>4. \A id \in Ids \ {k} : commands[id] # Nil => commands[id] \in Obj \ {e}
  BY <1>0, <1>k, <1>e DEF XInv, QInv, TypeOK, EntryInv
<1>5. 1..pushed \subseteq Obj
  BY QueueAssumption DEF XInv, QInv, TypeOK, Obj
<1>6. RouteInv'
  BY <1>0, <1>2, RouteKept
<1>7. CountInv'
  <2>1. ASSUME NEW id \in Ids, id # k
        PROVE  /\ writes'[id] + Cardinality(Started(id)') + (IF CanMarkStarted(id)' THEN 1 ELSE 0)
                    <= Cardinality(Timed(id)')
               /\ writes'[id] <= Cardinality(Past(id)')
    <3>1. Started(id)' = Started(id) /\ Past(id)' = Past(id)
      BY <1>0 DEF Started, Past
    <3>2. Timed(id) \subseteq Timed(id)'
      BY <1>0, <1>2, <1>5 DEF Timed
    <3>3. CanMarkStarted(id)' => CanMarkStarted(id)
      BY <1>0, <1>3, <1>4, <2>1 DEF CanMarkStarted
    <3> QED  BY <1>0, <3>1, <3>2, <3>3, CountKept
  <2>2. /\ writes'[k] + Cardinality(Started(k)') + (IF CanMarkStarted(k)' THEN 1 ELSE 0)
             <= Cardinality(Timed(k)')
        /\ writes'[k] <= Cardinality(Past(k)')
    <3> DEFINE a == Cardinality(Started(k))
               b == Cardinality(Timed(k))
               w == writes[k]
    <3>1. Started(k)' = Started(k) /\ Past(k)' = Past(k)
      BY <1>0 DEF Started, Past
    <3>2. o \notin Timed(k)
      BY <1>0 DEF Timed
    <3>3. Timed(k)' = Timed(k) \cup {o}
      BY <1>k, <1>0, <1>1, <1>2, <1>5 DEF Timed
    <3>4. a \in Nat /\ b \in Nat /\ w \in Nat /\ Cardinality(Timed(k)') = b + 1
      BY <1>0, <3>2, <3>3, CountedType, FS_AddElement DEF XInv, XTypeOK
    <3>5. ~CanMarkStarted(k)
      BY <1>e, <1>0 DEF CanMarkStarted
    <3>6. w + a <= b /\ w <= Cardinality(Past(k))
      BY <1>0, <3>4, <3>5 DEF XInv, CountInv
    <3> HIDE DEF a, b, w
    <3>7. w + a + (IF CanMarkStarted(k)' THEN 1 ELSE 0) <= b + 1
      BY <3>4, <3>6
    <3> QED  BY <1>0, <3>1, <3>4, <3>6, <3>7 DEF a, w
  <2> QED  BY <2>1, <2>2 DEF CountInv
<1>8. WrittenInv'
  <2>1. \A id \in Ids : Successes(id)' \subseteq Successes(id) /\ Owed(id)' = Owed(id)
    BY <1>0, <1>3, <1>5 DEF Successes, Owed
  <2>2. \A p \in Obj : status'[p] = "Completed" => p <= pushed
    BY <1>3 DEF XInv, WrittenInv
  <2> QED  BY <1>0, <2>1, <2>2, WrittenKept
<1> QED  BY <1>6, <1>7, <1>8 DEF Routed

\* MarkCommandStarted uses the mark up: the entry is no longer Sent.
LEMMA StartKeeps ==
  ASSUME XInv, QInv', XTypeOK', NEW o \in Obj, WorkerStart(o), ConsumerMarkStarted(idOf[o]),
         worker' = [worker EXCEPT ![o] = "device"]
  PROVE  Routed'
<1>k. PICK k \in Ids : k = idOf[o]
  BY DEF XInv, QInv, TypeOK
<1>e. PICK e \in Obj : e = commands[k]
  BY <1>k DEF XInv, QInv, TypeOK, ConsumerMarkStarted, MarkCommandStarted, CanMarkStarted
<1>0. /\ pushed \in Nat /\ pushed' \in Nat /\ status[e] = "Sent" /\ worker[o] = "start"
      /\ status' = [status EXCEPT ![e] = "Executing"]
      /\ UNCHANGED <<writes, sendChan, arg, pushed, idOf, commands, timer>>
  BY <1>k, <1>e, QueueAssumption
     DEF XInv, QInv, TypeOK, WorkerStart, ConsumerMarkStarted, MarkCommandStarted, CanMarkStarted,
         mapVars, chanVars, clientVars
<1>1. o \in 1..pushed
  BY <1>0 DEF XInv, RouteInv, Obj
<1>2. worker'[o] = "device" /\ \A p \in Obj \ {o} : worker'[p] = worker[p]
  BY DEF XInv, XTypeOK
<1>3. status'[e] = "Executing" /\ \A p \in Obj \ {e} : status'[p] = status[p]
  BY <1>0 DEF XInv, QInv, TypeOK
<1>4. 1..pushed \subseteq Obj
  BY QueueAssumption DEF XInv, QInv, TypeOK, Obj
<1>5. \A id \in Ids : commands[id] # Nil => commands[id] \in Obj
  BY DEF XInv, QInv, TypeOK
<1>6. RouteInv'
  BY <1>0, <1>2, RouteKept
<1>7. CountInv'
  <2>1. ASSUME NEW id \in Ids, id # k
        PROVE  /\ writes'[id] + Cardinality(Started(id)') + (IF CanMarkStarted(id)' THEN 1 ELSE 0)
                    <= Cardinality(Timed(id)')
               /\ writes'[id] <= Cardinality(Past(id)')
    <3>1. Timed(id)' = Timed(id)
      BY <1>0 DEF Timed
    <3>2. Started(id)' = Started(id) /\ Past(id)' = Past(id)
      BY <1>k, <1>0, <1>2, <1>4, <2>1 DEF Started, Past
    <3>3. CanMarkStarted(id)' => CanMarkStarted(id)
      BY <1>0, <1>3, <1>5 DEF CanMarkStarted
    <3> QED  BY <1>0, <3>1, <3>2, <3>3, CountKept
  <2>2. /\ writes'[k] + Cardinality(Started(k)') + (IF CanMarkStarted(k)' THEN 1 ELSE 0)
             <= Cardinality(Timed(k)')
        /\ writes'[k] <= Cardinality(Past(k)')
    <3> DEFINE a == Cardinality(Started(k))
               b == Cardinality(Timed(k))
               w == writes[k]
    <3>1. Timed(k)' = Timed(k) /\ Past(k)' = Past(k)
      BY <1>0, <1>2, <1>4 DEF Timed, Past
    <3>2. o \notin Started(k)
      BY <1>0 DEF Started
    <3>3. Started(k)' = Started(k) \cup {o}
      BY <1>k, <1>0, <1>1, <1>2, <1>4 DEF Started
    <3>4. a \in Nat /\ b \in Nat /\ w \in Nat /\ Cardinality(Started(k)') = a + 1
      BY <1>0, <3>2, <3>3, CountedType, FS_AddElement DEF XInv, XTypeOK
    <3>5. CanMarkStarted(k) /\ ~CanMarkStarted(k)'
      BY <1>e, <1>0, <1>3 DEF CanMarkStarted, Nil, Obj
    <3>6. w + a + 1 <= b /\ w <= Cardinality(Past(k))
      BY <1>0, <3>4, <3>5 DEF XInv, CountInv
    <3> HIDE DEF a, b, w
    <3>7. w + (a + 1) <= b
      BY <3>4, <3>6
    <3> QED  BY <1>0, <3>1, <3>4, <3>5, <3>6, <3>7 DEF a, b, w
  <2> QED  BY <2>1, <2>2 DEF CountInv
<1>8. WrittenInv'
  <2>1. \A id \in Ids : Successes(id)' \subseteq Successes(id) /\ Owed(id)' \subseteq Owed(id)
    BY <1>0, <1>2, <1>3, <1>4 DEF Successes, Owed
  <2>2. \A p \in Obj : status'[p] = "Completed" => p <= pushed
    BY <1>3 DEF XInv, WrittenInv
  <2> QED  BY <1>0, <2>1, <2>2, WrittenKept
<1> QED  BY <1>6, <1>7, <1>8 DEF Routed

\* A device write that succeeds uses a start up.
LEMMA WriteKeeps ==
  ASSUME XInv, QInv', XTypeOK', NEW o \in Obj, WorkerWrite(o), worker' = [worker EXCEPT ![o] = "ok"],
         writes' = [writes EXCEPT ![idOf[o]] = @ + 1]
  PROVE  Routed'
<1>k. PICK k \in Ids : k = idOf[o]
  BY DEF XInv, QInv, TypeOK
<1>0. /\ pushed \in Nat /\ pushed' \in Nat /\ worker[o] = "write"
      /\ UNCHANGED <<sendChan, arg, pushed, idOf, commands, timer, status>>
  BY QueueAssumption
     DEF XInv, QInv, TypeOK, WorkerWrite, qvars, mapVars, chanVars, objVars, clientVars
<1>1. o \in 1..pushed
  BY <1>0 DEF XInv, RouteInv, Obj
<1>2. worker'[o] = "ok" /\ \A p \in Obj \ {o} : worker'[p] = worker[p]
  BY DEF XInv, XTypeOK
<1>3. writes'[k] = writes[k] + 1 /\ \A id \in Ids \ {k} : writes'[id] = writes[id]
  BY <1>k DEF XInv, XTypeOK
<1>4. 1..pushed \subseteq Obj /\ \A p \in Obj : idOf[p] \in Ids
  BY QueueAssumption DEF XInv, QInv, TypeOK, Obj
<1>5. \A id \in Ids : CanMarkStarted(id)' <=> CanMarkStarted(id)
  BY <1>0 DEF CanMarkStarted
<1>6. RouteInv'
  BY <1>0, <1>2, RouteKept
<1>7. CountInv'
  <2>1. ASSUME NEW id \in Ids, id # k
        PROVE  /\ writes'[id] + Cardinality(Started(id)') + (IF CanMarkStarted(id)' THEN 1 ELSE 0)
                    <= Cardinality(Timed(id)')
               /\ writes'[id] <= Cardinality(Past(id)')
    <3>1. Timed(id)' = Timed(id)
      BY <1>0 DEF Timed
    <3>2. Started(id)' = Started(id) /\ Past(id)' = Past(id)
      BY <1>k, <1>0, <1>2, <1>4, <2>1 DEF Started, Past
    <3> QED  BY <1>0, <1>3, <1>5, <2>1, <3>1, <3>2, CountKept
  <2>2. /\ writes'[k] + Cardinality(Started(k)') + (IF CanMarkStarted(k)' THEN 1 ELSE 0)
             <= Cardinality(Timed(k)')
        /\ writes'[k] <= Cardinality(Past(k)')
    <3> DEFINE a == Cardinality(Started(k))
               b == Cardinality(Timed(k))
               p == Cardinality(Past(k))
               w == writes[k]
               m == IF CanMarkStarted(k) THEN 1 ELSE 0
    <3>1. Timed(k)' = Timed(k)
      BY <1>0 DEF Timed
    <3>2. o \in Started(k) /\ o \notin Past(k)
      BY <1>k, <1>0, <1>1 DEF Started, Past
    <3>3. Started(k)' = Started(k) \ {o}
      BY <1>k, <1>0, <1>1, <1>2, <1>4 DEF Started
    <3>4. Past(k)' = Past(k) \cup {o}
      BY <1>k, <1>0, <1>1, <1>2, <1>4 DEF Past
    <3>5. a \in Nat /\ b \in Nat /\ p \in Nat /\ w \in Nat /\ m \in Nat
      BY <1>0, CountedType DEF XInv, XTypeOK
    <3>6. Cardinality(Started(k)') = a - 1
      BY <1>0, <3>2, <3>3, CountedType, FS_RemoveElement
    <3>7. Cardinality(Past(k)') = p + 1
      BY <1>0, <3>2, <3>4, CountedType, FS_AddElement
    <3>8. w + a + m <= b /\ w <= p
      BY DEF XInv, CountInv
    <3>9. m = IF CanMarkStarted(k)' THEN 1 ELSE 0
      BY <1>5
    <3> HIDE DEF a, b, p, w, m
    <3>10. (w + 1) + (a - 1) + m <= b /\ w + 1 <= p + 1
      BY <3>5, <3>8
    <3> QED  BY <1>3, <3>1, <3>6, <3>7, <3>9, <3>10 DEF b, w
  <2> QED  BY <2>1, <2>2 DEF CountInv
<1>8. WrittenInv'
  <2>1. \A p \in Obj : status'[p] = "Completed" => p <= pushed'
    BY <1>0 DEF XInv, WrittenInv
  <2>2. ASSUME NEW id \in Ids, id # k
        PROVE  Cardinality(Successes(id)') + Cardinality(Owed(id)') <= writes'[id]
    <3>1. Successes(id)' = Successes(id) /\ Owed(id)' = Owed(id)
      BY <1>k, <1>0, <1>2, <1>4, <2>2 DEF Successes, Owed
    <3> QED  BY <1>3, <2>2, <3>1 DEF XInv, WrittenInv
  <2>3. Cardinality(Successes(k)') + Cardinality(Owed(k)') <= writes'[k]
    <3> DEFINE s == Cardinality(Successes(k))
               q == Cardinality(Owed(k))
               w == writes[k]
    <3>1. Successes(k)' = Successes(k)
      BY <1>0 DEF Successes
    <3>2. o \notin Owed(k)
      BY <1>0 DEF Owed
    <3>3. Owed(k)' = Owed(k) \cup {o}
      BY <1>k, <1>0, <1>1, <1>2, <1>4 DEF Owed
    <3>4. s \in Nat /\ q \in Nat /\ w \in Nat /\ IsFiniteSet(Owed(k))
      BY <1>0, CountedType DEF XInv, XTypeOK
    <3>5. Cardinality(Owed(k)') = q + 1
      BY <3>2, <3>3, <3>4, FS_AddElement
    <3>6. s + q <= w
      BY DEF XInv, WrittenInv
    <3> HIDE DEF s, q, w
    <3>7. s + (q + 1) <= w + 1
      BY <3>4, <3>6
    <3> QED  BY <1>3, <3>1, <3>5, <3>7 DEF s, w
  <2> QED  BY <2>1, <2>2, <2>3 DEF WrittenInv
<1> QED  BY <1>6, <1>7, <1>8 DEF Routed

\* The other steps of processCommand: dropped, device looked up, write failed, result reported.
LEMMA ProgressKeeps ==
  ASSUME XInv, QInv', XTypeOK', NEW o \in Obj, NEW v \in {"write", "fail", "done"},
         worker[o] \notin {"none", "done"}, v = "write" => worker[o] = "device",
         worker' = [worker EXCEPT ![o] = v],
         UNCHANGED <<sendChan, arg, pushed, idOf, commands, timer, writes>>,
         \A p \in Obj : \/ status'[p] \in {status[p], "Failed"}
                        \/ status'[p] = "Completed" /\ worker[o] = "ok" /\ p = commands[idOf[o]]
  PROVE  Routed'
<1>t. pushed \in 0..MaxPush /\ MaxPush \in Nat /\ idOf[o] \in Ids
  BY QueueAssumption DEF XInv, QInv, TypeOK
<1>0. pushed \in Nat /\ pushed' \in Nat /\ 1..pushed \subseteq Obj /\ idOf[o] \in Ids
  BY <1>t DEF Obj
<1>1. worker'[o] = v /\ \A p \in Obj \ {o} : worker'[p] = worker[p]
  BY DEF XInv, XTypeOK
<1>2. \A id \in Ids : commands[id] # Nil => commands[id] \in Obj /\ idOf[commands[id]] = id
  BY DEF XInv, QInv, TypeOK, EntryInv
<1>3. RouteInv'
  BY <1>1, RouteKept
<1>4. CountInv'
  <2> SUFFICES ASSUME NEW id \in Ids
               PROVE  /\ writes'[id] + Cardinality(Started(id)') + (IF CanMarkStarted(id)' THEN 1 ELSE 0)
                           <= Cardinality(Timed(id)')
                      /\ writes'[id] <= Cardinality(Past(id)')
    BY DEF CountInv
  <2>1. Timed(id)' = Timed(id)
    BY DEF Timed
  <2>2. Started(id)' \subseteq Started(id) /\ Past(id) \subseteq Past(id)'
    BY <1>0, <1>1 DEF Started, Past
  <2>3. CanMarkStarted(id)' => CanMarkStarted(id)
    BY <1>2 DEF CanMarkStarted
  <2> QED  BY <1>0, <2>1, <2>2, <2>3, CountKept
<1>6. CASE \A p \in Obj : status'[p] \in {status[p], "Failed"}
  <2>1. \A id \in Ids : Successes(id)' \subseteq Successes(id) /\ Owed(id)' \subseteq Owed(id)
    BY <1>0, <1>1, <1>6 DEF Successes, Owed
  <2>2. \A p \in Obj : status'[p] = "Completed" => p <= pushed
    BY <1>6 DEF XInv, WrittenInv
  <2>3. WrittenInv'
    BY <1>0, <2>1, <2>2, WrittenKept
  <2> QED  BY <1>3, <1>4, <2>3 DEF Routed
<1>7. CASE \E p \in Obj : status'[p] \notin {status[p], "Failed"}
  <2> DEFINE k == idOf[o]
             e == commands[k]
  <2>1. /\ worker[o] = "ok" /\ e \in Obj /\ v \in {"fail", "done"}
        /\ \A p \in Obj \ {e} : status'[p] \in {status[p], "Failed"}
    BY <1>7
  <2>2. e \in 1..pushed /\ idOf[e] = k /\ o \in 1..pushed
    BY <1>0, <2>1 DEF XInv, QInv, EntryInv, RouteInv, Obj, Nil
  <2> HIDE DEF e
  <2>3. \A p \in Obj : status'[p] = "Completed" => p <= pushed'
    BY <2>1, <2>2 DEF XInv, WrittenInv
  <2>4. ASSUME NEW id \in Ids, id # k
        PROVE  Cardinality(Successes(id)') + Cardinality(Owed(id)') <= writes'[id]
    <3>1. Successes(id)' \subseteq Successes(id)
      BY <1>0, <2>1, <2>2, <2>4 DEF Successes
    <3>2. Owed(id)' = Owed(id)
      BY <1>0, <1>1, <2>4 DEF Owed
    <3>3. Cardinality(Successes(id)') <= Cardinality(Successes(id))
      BY <1>0, <3>1, CountedType, FS_Subset
    <3>4. Cardinality(Successes(id)) + Cardinality(Owed(id)) <= writes[id]
      BY DEF XInv, WrittenInv
    <3> DEFINE s == Cardinality(Successes(id))
               s1 == Cardinality(Successes(id)')
               q == Cardinality(Owed(id))
               w == writes[id]
    <3>5. s \in Nat /\ s1 \in Nat /\ q \in Nat /\ w \in Nat
      BY <1>0, CountedType, CountedTypeNext DEF XInv, XTypeOK
    <3>6. s1 <= s /\ s + q <= w
      BY <3>3, <3>4
    <3> HIDE DEF s, s1, q, w
    <3>7. s1 + q <= w
      BY <3>5, <3>6
    <3> QED  BY <3>2, <3>7 DEF s1, q, w
  <2>5. Cardinality(Successes(k)') + Cardinality(Owed(k)') <= writes'[k]
    <3> DEFINE s == Cardinality(Successes(k))
               s1 == Cardinality(Successes(k)')
               se == Cardinality(Successes(k) \cup {e})
               q == Cardinality(Owed(k))
               w == writes[k]
    <3>1. Successes(k)' \subseteq Successes(k) \cup {e}
      BY <1>0, <2>1 DEF Successes
    <3>2. Owed(k)' = Owed(k) \ {o} /\ o \in Owed(k)
      BY <1>0, <1>1, <2>1, <2>2 DEF Owed
    <3>3. /\ IsFiniteSet(Successes(k) \cup {e})
          /\ se = IF e \in Successes(k) THEN s ELSE s + 1
      BY <1>0, CountedType, FS_AddElement
    <3>4. s1 <= se
      BY <3>1, <3>3, FS_Subset
    <3>5. Cardinality(Owed(k)') = q - 1
      BY <1>0, <3>2, CountedType, FS_RemoveElement
    <3>6. s \in Nat /\ s1 \in Nat /\ q \in Nat /\ w \in Nat
      BY <1>0, CountedType, CountedTypeNext DEF XInv, XTypeOK
    <3>7. s + q <= w
      BY <1>0 DEF XInv, WrittenInv
    <3> HIDE DEF s, s1, se, q, w
    <3>8. s1 + (q - 1) <= w
      BY <3>3, <3>4, <3>6, <3>7
    <3> QED  BY <3>5, <3>8 DEF s1, w
  <2>6. WrittenInv'
    BY <2>3, <2>4, <2>5 DEF WrittenInv
  <2> QED  BY <1>3, <1>4, <2>6 DEF Routed
<1> QED  BY <1>6, <1>7

\* What MarkCommandCompleted does to the statuses.
LEMMA CompletedStatus ==
  ASSUME QInv, NEW id \in Ids, NEW r, MarkCommandCompleted(id, r)
  PROVE  \A p \in Obj : status'[p] = status[p] \/ (status'[p] = r /\ p = commands[id])
BY DEF QInv, TypeOK, MarkCommandCompleted

\* processCommand.
LEMMA WorkerKeeps ==
  ASSUME XInv, QInv', XTypeOK', NEW o \in Obj, Worker(o)
  PROVE  Routed'
<1>0. idOf[o] \in Ids
  BY DEF XInv, QInv, TypeOK
<1>1. CASE WorkerStart(o)
  <2>1. CASE ConsumerMarkStarted(idOf[o]) /\ worker' = [worker EXCEPT ![o] = "device"]
    BY <1>1, <2>1, StartKeeps
  <2>2. CASE worker' = [worker EXCEPT ![o] = "done"] /\ UNCHANGED qvars
    <3>1. /\ worker[o] = "start" /\ UNCHANGED writes
          /\ UNCHANGED <<sendChan, arg, pushed, idOf, commands, timer, status>>
      BY <1>1, <2>2 DEF WorkerStart, qvars, chanVars, clientVars, objVars, mapVars
    <3> QED  BY <2>2, <3>1, ProgressKeeps
  <2> QED  BY <1>1, <2>1, <2>2 DEF WorkerStart
<1>2. CASE WorkerDevice(o)
  <2>1. /\ worker[o] = "device" /\ UNCHANGED <<sendChan, arg, pushed, idOf, commands, timer, status, writes>>
        /\ \E v \in {"write", "fail", "done"} : worker' = [worker EXCEPT ![o] = v]
    BY <1>2 DEF WorkerDevice, qvars, chanVars, clientVars, objVars, mapVars
  <2> QED  BY <2>1, ProgressKeeps
<1>3. CASE WorkerWrite(o)
  <2>1. CASE worker' = [worker EXCEPT ![o] = "ok"] /\ writes' = [writes EXCEPT ![idOf[o]] = @ + 1]
    BY <1>3, <2>1, WriteKeeps
  <2>2. CASE worker' = [worker EXCEPT ![o] = "fail"] /\ UNCHANGED writes
    <3>1. worker[o] = "write" /\ UNCHANGED <<sendChan, arg, pushed, idOf, commands, timer, status>>
      BY <1>3 DEF WorkerWrite, qvars, chanVars, clientVars, objVars, mapVars
    <3> QED  BY <2>2, <3>1, ProgressKeeps
  <2> QED  BY <1>3, <2>1, <2>2 DEF WorkerWrite
<1>4. CASE WorkerComplete(o)
  <2>1. /\ worker[o] \in {"ok", "fail"} /\ worker' = [worker EXCEPT ![o] = "done"]
        /\ UNCHANGED <<sendChan, arg, pushed, idOf, commands, timer, writes>>
    BY <1>4 DEF WorkerComplete, ConsumerMarkCompleted, clientVars, mapVars
  <2>2. MarkCommandCompleted(idOf[o], IF worker[o] = "ok" THEN "Completed" ELSE "Failed")
    BY <1>4 DEF WorkerComplete, ConsumerMarkCompleted
  <2>3. \A p \in Obj : \/ status'[p] = status[p]
                       \/ status'[p] = (IF worker[o] = "ok" THEN "Completed" ELSE "Failed") /\ p = commands[idOf[o]]
    BY <1>0, <2>2, CompletedStatus DEF XInv
  <2> QED  BY <2>1, <2>3, ProgressKeeps
<1> QED  BY <1>1, <1>2, <1>3, <1>4 DEF Worker

\* Every step of the composition preserves the invariant.
LEMMA XInvStep == XInv /\ [XNext]_vars => XInv'
<1> SUFFICES ASSUME XInv, [XNext]_vars PROVE XInv'
  OBVIOUS
<1>1. QInv' /\ XTypeOK'
  BY ExecutorStep, QInvStep, XTypeStep DEF XInv
<1> DEFINE Quiet == /\ UNCHANGED <<sendChan, worker, arg, pushed, idOf, writes>>
                    /\ \A id \in Ids : commands'[id] \in {commands[id], Nil}
                    /\ \A o \in Obj : status'[o] \in {status[o], "Failed"}
                    /\ \A o \in Obj : timer'[o] = timer[o] \/ (timer[o] \in {"mark", "wait"} /\ timer'[o] = "done")
<1>2. Quiet => Routed'
  BY <1>1, QuietKeeps
<1>3. (UNCHANGED <<sendChan, worker, arg, pushed, idOf, writes, commands, status, timer>>) => Quiet
  OBVIOUS
<1> HIDE DEF Quiet
<1>4. ASSUME XStart \/ HandleEvent \/ XStopper \/ (\E d \in Devices : AddDevice(d) \/ RemoveDevice(d)) PROVE Routed'
  <2>1. UNCHANGED <<sendChan, worker, arg, pushed, idOf, writes, commands, status, timer>>
    BY <1>4 DEF XStart, Start, HandleEvent, SystemStartEvent, SystemStopEvent, XCancel, ParentCancel, XStopper, XStopBegin, XStopQueue, StopBegin,
                StopCancelCommands, StopClose, StopReturn, XStopDevices, XStopReturn, AddDevice, RemoveDevice,
                qvars, xvars, mapVars, chanVars, objVars, clientVars
  <2> QED  BY <1>2, <1>3, <2>1
<1>5. ASSUME Listener \/ DispatcherExit \/ (DispatcherReceive /\ sendChan = <<>>) PROVE Routed'
  <2>1. UNCHANGED <<sendChan, worker, arg, pushed, idOf, writes, commands, status, timer>>
    BY <1>5 DEF Listener, ListenerReceive, ListenerExit, DispatcherExit, DispatcherReceive, ConsumerTakeCommand,
                TakeCommand, ConsumerTakeCompletion, qvars, xvars, mapVars, chanVars, objVars, clientVars
  <2> QED  BY <1>2, <1>3, <2>1
<1>6. ASSUME DispatcherReceive /\ sendChan # <<>> PROVE Routed'
  BY <1>1, <1>6, ReceiveKeeps
<1>7. ASSUME NEW o \in Obj, Worker(o) PROVE Routed'
  BY <1>1, <1>7, WorkerKeeps
<1>8. ASSUME UNCHANGED xvars, NEW c \in Clients, Client(c) PROVE Routed'
  <2>1. CASE (\E id \in Ids : PushBegin(c, id)) \/ PushRejected(c) \/ PushStore(c)
    BY <1>1, <1>8, <2>1, PushKeeps
  <2>2. CASE PushSend(c)
    BY <1>1, <1>8, <2>2, SendKeeps
  <2>3. CASE (\E g \in Groups : RemoveBegin(c, g)) \/ RemoveEnd(c) \/ ClearIndex(c)
    <3>1. UNCHANGED <<sendChan, worker, arg, pushed, idOf, writes, commands, status, timer>>
      BY <1>8, <2>3 DEF RemoveBegin, RemoveEnd, ClearIndex, xvars, mapVars, chanVars, objVars
    <3> QED  BY <1>2, <1>3, <3>1
  <2>4. CASE RemoveOne(c) \/ ClearCommands(c)
    <3>1. Quiet
      BY <1>8, <2>4 DEF RemoveOne, ClearCommands, xvars, chanVars, XInv, QInv, TypeOK, Quiet
    <3> QED  BY <1>2, <3>1
  <2> QED  BY <1>8, <2>1, <2>2, <2>3, <2>4 DEF Client
<1>9. ASSUME UNCHANGED xvars, Sender PROVE Routed'
  <2>1. CASE SenderReceive
    BY <1>1, <1>9, <2>1, ReceiveKeeps
  <2>2. CASE SenderReceiveNil \/ SenderExit
    <3>1. UNCHANGED <<sendChan, worker, arg, pushed, idOf, writes, commands, status, timer>>
      BY <1>9, <2>2 DEF SenderReceiveNil, SenderExit, xvars, mapVars, chanVars, objVars, clientVars
    <3> QED  BY <1>2, <1>3, <3>1
  <2> QED  BY <1>9, <2>1, <2>2 DEF Sender
<1>10. ASSUME UNCHANGED xvars, NEW o \in Obj, Timer(o) PROVE Routed'
  <2>0. timer' \in [Obj -> {"none", "mark", "wait", "done"}] /\ idOf[o] \in Ids
    BY <1>1 DEF XInv, QInv, TypeOK
  <2>1. CASE TimerMarkSent(o)
    <3>1. CASE MarkCommandSent(idOf[o]) /\ timer' = [timer EXCEPT ![o] = "wait"]
      BY <1>1, <1>10, <2>1, <3>1, MarkKeeps
    <3>2. CASE timer' = [timer EXCEPT ![o] = "done"] /\ UNCHANGED status
      <4>1. Quiet
        BY <1>10, <2>1, <3>2 DEF TimerMarkSent, xvars, mapVars, chanVars, clientVars, XInv, QInv, TypeOK, Quiet
      <4> QED  BY <1>2, <4>1
    <3> QED  BY <2>1, <3>1, <3>2 DEF TimerMarkSent
  <2>2. CASE Deadline(o)
    <3>1. UNCHANGED <<sendChan, worker, arg, pushed, idOf, writes, commands, status, timer>>
      BY <1>10, <2>2 DEF Deadline, xvars, mapVars, chanVars, clientVars
    <3> QED  BY <1>2, <1>3, <3>1
  <2>3. CASE TimerExpired(o)
    <3>1. \A p \in Obj : status'[p] \in {status[p], "Failed"}
      BY <2>0, <2>3, CompletedStatus DEF TimerExpired, XInv
    <3>2. Quiet
      BY <1>10, <2>3, <3>1 DEF TimerExpired, xvars, mapVars, clientVars, XInv, QInv, TypeOK, Quiet
    <3> QED  BY <1>2, <3>2
  <2>4. CASE TimerCancelled(o)
    <3>1. Quiet
      BY <1>10, <2>4 DEF TimerCancelled, xvars, mapVars, chanVars, clientVars, XInv, QInv, TypeOK, Quiet
    <3> QED  BY <1>2, <3>1
  <2> QED  BY <1>10, <2>1, <2>2, <2>3, <2>4 DEF Timer
<1>11. ASSUME UNCHANGED xvars, CleanerStep PROVE Routed'
  <2>1. CASE CleanerReceive \/ CleanerReceiveNil \/ CleanerExit \/ CleanupIndex
    <3>1. UNCHANGED <<sendChan, worker, arg, pushed, idOf, writes, commands, status, timer>>
      BY <1>11, <2>1 DEF CleanerReceive, CleanerReceiveNil, CleanerExit, CleanupIndex, xvars, mapVars, chanVars,
                         objVars, clientVars
    <3> QED  BY <1>2, <1>3, <3>1
  <2>2. CASE CleanupEntry
    <3>1. Quiet
      BY <1>11, <2>2 DEF CleanupEntry, xvars, chanVars, objVars, clientVars, XInv, QInv, TypeOK, Quiet
    <3> QED  BY <1>2, <3>1
  <2> QED  BY <1>11, <2>1, <2>2 DEF CleanerStep
<1>12. ASSUME UNCHANGED vars PROVE Routed'
  <2>1. UNCHANGED <<sendChan, worker, arg, pushed, idOf, writes, commands, status, timer>>
    BY <1>12 DEF vars, qvars, xvars, mapVars, chanVars, objVars, clientVars
  <2> QED  BY <1>2, <1>3, <2>1
<1>13. Routed'
  BY <1>4, <1>5, <1>6, <1>7, <1>8, <1>9, <1>10, <1>11, <1>12 DEF XNext, Dispatcher, QueueGoroutines
<1> QED  BY <1>1, <1>13 DEF XInv, Routed

\* The executor as newly made satisfies the invariant.
LEMMA XInvInit == XInit => XInv
<1> SUFFICES ASSUME XInit PROVE XInv
  OBVIOUS
<1>1. QInv /\ TypeOK
  BY QInvInit DEF XInit, QInv
<1>2. XTypeOK
  <2>1. writes \in [Ids -> Nat]
    BY DEF XInit
  <2> QED  BY <1>1, <2>1 DEF XInit, XTypeOK
<1>3. /\ sendChan = <<>> /\ pushed = 0 /\ \A id \in Ids : commands[id] = Nil /\ writes[id] = 0
      /\ \A o \in Obj : timer[o] = "none" /\ worker[o] = "none"
      /\ \A c \in Clients : arg[c] = Nil
  BY DEF XInit, Init
<1>4. Range(sendChan) = {} /\ Distinct(sendChan)
  BY <1>3 DEF Range, Distinct
<1>5. RouteInv
  BY <1>3, <1>4 DEF RouteInv
<1>6. CountInv
  <2> SUFFICES ASSUME NEW id \in Ids
               PROVE  /\ writes[id] + Cardinality(Started(id)) + (IF CanMarkStarted(id) THEN 1 ELSE 0)
                           <= Cardinality(Timed(id))
                      /\ writes[id] <= Cardinality(Past(id))
    BY DEF CountInv
  <2>1. Started(id) = {} /\ Timed(id) = {} /\ Past(id) = {}
    BY <1>3 DEF Started, Timed, Past
  <2>2. ~CanMarkStarted(id)
    BY <1>3 DEF CanMarkStarted
  <2>3. writes[id] = 0
    BY <1>3
  <2> QED  BY <2>1, <2>2, <2>3, FS_EmptySet
<1>7. WrittenInv
  <2>1. \A o \in Obj : status[o] # "Completed"
    BY DEF XInit, Init
  <2>2. \A id \in Ids : Successes(id) = {} /\ Owed(id) = {}
    BY <1>3 DEF Successes, Owed
  <2>3. \A id \in Ids : writes[id] = 0
    BY <1>3
  <2> QED  BY <2>1, <2>2, <2>3, FS_EmptySet DEF WrittenInv
<1> QED  BY <1>1, <1>2, <1>5, <1>6, <1>7 DEF XInv

\* The counts of starts and of passed writes add up to two pushes for every write.
LEMMA TwoPushes == XInv => WriteTakesTwoPushes
<1> SUFFICES ASSUME XInv, NEW id \in Ids PROVE 2 * writes[id] <= PushesOf(id)
  BY DEF WriteTakesTwoPushes
<1> DEFINE A == {o \in 1..pushed : idOf[o] = id}
           n == Cardinality(A)
           a == Cardinality(Started(id))
           b == Cardinality(Timed(id))
           p == Cardinality(Past(id))
           w == writes[id]
           m == IF CanMarkStarted(id) THEN 1 ELSE 0
<1>0. pushed \in Nat /\ 1..pushed \subseteq Obj
  BY QueueAssumption DEF XInv, QInv, TypeOK, Obj
<1>1. a \in Nat /\ b \in Nat /\ p \in Nat /\ w \in Nat /\ m \in Nat
  BY <1>0, CountedType DEF XInv, XTypeOK
<1>2. IsFiniteSet(A) /\ n \in Nat
  BY <1>0, CountType
<1>3. Timed(id) \cap Past(id) = {}
  BY <1>0 DEF XInv, RouteInv, Timed, Past
<1>4. Timed(id) \cup Past(id) \subseteq A
  BY DEF Timed, Past
<1>5. Cardinality(Timed(id) \cup Past(id)) = b + p
  <2>1. Cardinality(Timed(id) \cup Past(id)) = b + p - Cardinality(Timed(id) \cap Past(id))
    BY <1>0, CountedType, FS_Union
  <2> QED  BY <1>1, <1>3, <2>1, FS_EmptySet
<1>6. Cardinality(Timed(id) \cup Past(id)) <= n
  BY <1>2, <1>4, FS_Subset
<1>7. w + a + m <= b /\ w <= p
  BY DEF XInv, CountInv
<1>8. n = PushesOf(id)
  BY DEF PushesOf
<1>9. b + p <= n
  BY <1>5, <1>6
<1> HIDE DEF n, a, b, p, w, m
<1>10. 2 * w <= n
  BY <1>1, <1>2, <1>7, <1>9
<1> QED  BY <1>8, <1>10 DEF w

\* No command is written to a device more than once for two pushes of its ID, however
\* processCommands and executeCommands share the commands out and whoever pushes them.
THEOREM WritesAreBounded == XSpec => []WriteTakesTwoPushes
BY XInvInit, XInvStep, TwoPushes, PTL DEF XSpec

\* Every success the queue reports was paid for by a device write of its own: neither a
\* timeout, nor a missing or disconnected device, nor a second report ever counts as one,
\* whatever entry of the ID the report settles.
THEOREM CompletionIsTrue == XSpec => []CompletedWasWritten
<1>1. XInv => CompletedWasWritten
  <2> SUFFICES ASSUME XInv, NEW id \in Ids PROVE Cardinality(Successes(id)) <= writes[id]
    BY DEF CompletedWasWritten
  <2> DEFINE s == Cardinality(Successes(id))
             q == Cardinality(Owed(id))
             w == writes[id]
  <2>1. s \in Nat /\ q \in Nat /\ w \in Nat
    BY QueueAssumption, CountedType DEF XInv, XTypeOK, QInv, TypeOK
  <2>2. s + q <= w
    BY DEF XInv, WrittenInv
  <2> HIDE DEF s, q, w
  <2>3. s <= w
    BY <2>1, <2>2
  <2> QED  BY <2>3 DEF s, w
<1> QED  BY XInvInit, XInvStep, <1>1, PTL DEF XSpec
=============================================================================
