--------------------------- MODULE HardwareProofs ---------------------------
(***************************************************************************)
(* Proofs about the hardware device manager, for any IDs and callers, any  *)
(* number of objects and retries, and any order in which protocols come:   *)
(* it is type-correct, a Read or Write keeps its handle, a client that     *)
(* says Connected has one, a removed device is closed, and the manager     *)
(* panics only once it is being stopped.                                   *)
(***************************************************************************)
EXTENDS HardwareManager, FiniteSetTheorems, TLAPS

-----------------------------------------------------------------------------
(* The clients *)

\* A link as the clients leave it: only closing a serial port fails, and Connected without a
\* handle is what that leaves behind; only a serial client has a listener, which reads from its port.
GoodLink(l) ==
  /\ l \in Link
  /\ l.closeFailed => l.proto = "serial"
  /\ l.status = "Connected" => l.handle \/ l.closeFailed
  /\ l.reading => l.handle /\ l.proto = "serial"

\* The number of objects created so far.
LEMMA IntervalCount ==
  ASSUME NEW k \in Nat
  PROVE  Cardinality(1..k) = k
<1>1. Cardinality(1..k) = IF 1 > k THEN 0 ELSE k - 1 + 1
  <2>1. 1 \in Int /\ k \in Int
    OBVIOUS
  <2> QED  BY ONLY <2>1, FS_Interval, Zenon
<1> QED  BY <1>1, SMT

\* Connect leaves a good link good, for each protocol and outcome.
LEMMA ConnectGood ==
  ASSUME NEW l, GoodLink(l), NEW m \in ConnectResults(l)
  PROVE  GoodLink(m)
<1> USE DEF GoodLink, Link, Protocols, Opened, Failed
<1>1. CASE l.proto = "serial"
  BY <1>1 DEF ConnectResults, SerialConnect
<1>2. CASE l.proto = "modbus"
  BY <1>2 DEF ConnectResults, ModbusConnect
<1>3. CASE l.proto = "custom"
  BY <1>3 DEF ConnectResults, CustomConnect
<1> QED  BY <1>1, <1>2, <1>3

\* Disconnect does too, and drops the handle even when the close fails.
LEMMA DisconnectGood ==
  ASSUME NEW l, GoodLink(l), NEW m \in DisconnectResults(l)
  PROVE  GoodLink(m) /\ ~m.handle
<1> USE DEF GoodLink, Link, Protocols, Dropped
<1>1. CASE l.proto = "serial"
  BY <1>1 DEF DisconnectResults, SerialDisconnect
<1>2. CASE l.proto = "modbus"
  BY <1>2 DEF DisconnectResults, ModbusDisconnect
<1>3. CASE l.proto = "custom"
  BY <1>3 DEF DisconnectResults, CustomDisconnect
<1> QED  BY <1>1, <1>2, <1>3

\* Reconnect is one of them after the other.
LEMMA ReconnectGood ==
  ASSUME NEW l, GoodLink(l), NEW m \in ReconnectResults(l)
  PROVE  GoodLink(m)
<1>1. PICK k \in DisconnectResults(l) : m \in (IF DisconnectFailed(l, k) THEN {k} ELSE ConnectResults(k))
  BY DEF ReconnectResults
<1>2. GoodLink(k)
  BY DisconnectGood
<1> QED  BY <1>1, <1>2, ConnectGood

\* A Read or Write that passes its client's checks finds a handle, although the modbus and the
\* custom client look at the status only.
LEMMA AcceptedHasHandle ==
  ASSUME NEW l, GoodLink(l), NEW named \in BOOLEAN, NEW defined \in BOOLEAN, Accepts(l, named, defined)
  PROVE  l.handle
<1> USE DEF GoodLink, Link, Protocols
<1>1. CASE l.proto = "serial"
  BY <1>1 DEF Accepts, SerialAccepts
<1>2. CASE l.proto = "modbus"
  BY <1>2 DEF Accepts, ModbusAccepts
<1>3. CASE l.proto = "custom"
  BY <1>3 DEF Accepts, CustomAccepts
<1> QED  BY <1>1, <1>2, <1>3

-----------------------------------------------------------------------------
(* The inductive invariant *)

\* TypeOK without the variables that say who waits for whom.
Types ==
  /\ devices \in [Ids -> 0..MaxObjects] /\ configs \subseteq Ids
  /\ idOf \in [Objects -> Ids \cup {"none"}] /\ link \in [Objects -> Link]
  /\ auto \subseteq Objects /\ orphan \subseteq Objects
  /\ call \in [Callers -> {Idle} \cup [op : Ops, obj : Objects, tries : 0..RetryCount]]
  /\ {autoScan, scanTicker, ctxDone, eventChan, crashed, scanStopped} \subseteq BOOLEAN
  /\ scanner \in {"off", "enter", "select", "scan"} /\ todo \subseteq Ids
  /\ rec \in [Ids -> NoRec..MaxObjects]
  /\ stopPc \in {"none", "cancelled", "locked", "selfLocked", "done"}

\* A RemoveDevice that waits with dm.mu still has its device in the table.
WaitInv ==
  /\ scanAt \in 0..MaxObjects /\ env \in Environments
  /\ holder \in [Objects -> Callers \cup {"free", "auto", "rec", "remove"}]
  /\ removing \in Ids \cup {"none"} /\ (removing \in Ids => devices[removing] # 0)

LinksGood == \A o \in Objects : GoodLink(link[o])

\* A Read or Write between its attempts has its handle.
AttemptInv == \A c \in Callers : call[c].op = "attempt" => link[call[c].obj].handle

\* The objects that exist are the first ones.
Created == {x \in Objects : idOf[x] # "none"}
NumberInv == \E k \in 0..MaxObjects : Created = 1..k

\* The table and the reconnect goroutines know an object by its own ID.
TableInv == \A i \in Ids : /\ devices[i] # 0 => idOf[devices[i]] = i
                           /\ rec[i] \in Objects => idOf[rec[i]] = i

\* Nobody is about to connect an object that was removed, unless they were when it was.
OrphanInv == \A o \in Created \ Managed : o \in orphan \/ ~AboutToConnect(o)

\* The scan goroutine has its ticker until StopAutoScan, and waits for an object only in its scan.
ScanInv == /\ scanner # "off" => scanTicker \/ scanStopped
           /\ scanAt # 0 => scanner = "scan"

\* The two halves are proved one after the other.
HInv == /\ Types /\ LinksGood /\ AttemptInv /\ NumberInv /\ TableInv /\ OrphanInv
        /\ RemovedIsClosed /\ ScanInv /\ PanicOnlyWhenStopping
HardwareInv == HInv /\ WaitInv

\* The manager as newly made satisfies it.
LEMMA HInvInit == Init => HardwareInv
<1> SUFFICES ASSUME Init PROVE HardwareInv
  OBVIOUS
<1> USE DEF Init
<1>1. MaxObjects \in Nat /\ RetryCount \in Nat /\ "none" \notin Ids
  BY HardwareAssumption
<1>2. \A o \in Objects : GoodLink(link[o]) /\ link[o].handle = FALSE
  <2>1. env.proto \in [Objects -> Protocols]
    BY HardwareAssumption DEF Environment
  <2> QED  BY <2>1 DEF NewLink, GoodLink, Link, Protocols
<1>3. link \in [Objects -> Link]
  BY <1>2 DEF GoodLink
<1>4. Types
  <2>1. call \in [Callers -> {Idle} \cup [op : Ops, obj : Objects, tries : 0..RetryCount]]
    OBVIOUS
  <2>2. devices \in [Ids -> 0..MaxObjects] /\ rec \in [Ids -> NoRec..MaxObjects]
    BY <1>1 DEF NoRec
  <2>3. {autoScan, scanTicker, ctxDone, eventChan, crashed, scanStopped} \subseteq BOOLEAN
    OBVIOUS
  <2>4. idOf \in [Objects -> Ids \cup {"none"}]
    OBVIOUS
  <2> QED  BY <1>3, <2>1, <2>2, <2>3, <2>4 DEF Types
<1>5. LinksGood /\ RemovedIsClosed
  BY <1>2 DEF LinksGood, RemovedIsClosed
<1>6. AttemptInv /\ ScanInv /\ PanicOnlyWhenStopping
  BY DEF AttemptInv, Idle, ScanInv, PanicOnlyWhenStopping
<1>7. Created = {}
  BY DEF Created
<1>8. NumberInv
  <2>1. 0 \in 0..MaxObjects /\ Created = 1..0
    BY <1>1, <1>7
  <2> QED  BY <2>1 DEF NumberInv
<1>9. TableInv /\ OrphanInv
  BY <1>1, <1>7 DEF TableInv, OrphanInv, Objects, NoRec
<1>10. WaitInv
  BY <1>1 DEF WaitInv
<1> QED  BY <1>4, <1>5, <1>6, <1>8, <1>9, <1>10 DEF HInv, HardwareInv

\* A step that looks objects up only in the table, and hands out no others to connect.
LEMMA TableKept ==
  ASSUME HInv, UNCHANGED <<devices, idOf, orphan>>, auto' \subseteq auto,
         \A i \in Ids : rec'[i] = rec[i] \/ rec'[i] \notin Objects \/ rec'[i] = devices[i],
         \A c \in Callers : \/ call'[c] = call[c]
                            \/ call'[c].op \notin {"connect", "reconnect"}
                            \/ call'[c].obj \in Managed
  PROVE  NumberInv' /\ TableInv' /\ OrphanInv'
<1> USE DEF HInv, Types
<1>0. MaxObjects \in Nat /\ Objects = 1..MaxObjects /\ 0 \notin Objects /\ "none" \notin Ids
  BY HardwareAssumption DEF Objects
<1>1. NumberInv' /\ Managed' = Managed /\ Created' = Created
  BY DEF NumberInv, Managed, Created
<1>2. TableInv'
  <2> SUFFICES ASSUME NEW i \in Ids
               PROVE /\ devices[i] # 0 => idOf[devices[i]] = i
                     /\ rec'[i] \in Objects => idOf[rec'[i]] = i
    BY DEF TableInv
  <2>1. /\ devices[i] # 0 => idOf[devices[i]] = i
        /\ rec[i] \in Objects => idOf[rec[i]] = i
    BY DEF TableInv
  <2>2. CASE rec'[i] = devices[i]
    BY <1>0, <2>1, <2>2
  <2>3. CASE rec'[i] = rec[i] \/ rec'[i] \notin Objects
    BY <2>1, <2>3
  <2> QED  BY <2>2, <2>3
<1>3. ASSUME NEW o \in Created \ Managed, AboutToConnect(o)' PROVE AboutToConnect(o)
  <2>0. o \in Objects /\ idOf[o] \in Ids
    BY DEF Created
  <2>1. ASSUME rec'[idOf[o]] = o PROVE rec[idOf[o]] = o
    <3>1. CASE rec'[idOf[o]] = devices[idOf[o]]
      BY <1>0, <2>0, <2>1, <3>1 DEF Managed
    <3> QED  BY <2>0, <2>1, <3>1
  <2> QED  BY <1>3, <2>1 DEF AboutToConnect
<1>4. OrphanInv'
  BY <1>1, <1>3 DEF OrphanInv
<1> QED  BY <1>1, <1>2, <1>4

\* Connecting or disconnecting an object whose mutex is free.
LEMMA LinkStep ==
  ASSUME HInv, UNCHANGED <<devices, idOf, orphan>>, NEW o \in Objects, ~Busy(o),
         NEW m, GoodLink(m), link' = [link EXCEPT ![o] = m], AboutToConnect(o) \/ ~m.handle,
         \A c \in Callers : call'[c].op = "attempt" => call'[c] = call[c]
  PROVE  LinksGood' /\ AttemptInv' /\ RemovedIsClosed' /\ link' \in [Objects -> Link]
<1> USE DEF HInv, Types
<1>1. link' \in [Objects -> Link] /\ link'[o] = m /\ \A x \in Objects \ {o} : link'[x] = link[x]
  BY DEF GoodLink
<1>2. LinksGood'
  BY <1>1 DEF LinksGood
<1>3. AttemptInv'
  <2> SUFFICES ASSUME NEW c \in Callers, call'[c].op = "attempt" PROVE link'[call[c].obj].handle
    BY DEF AttemptInv
  <2>1. call[c].op = "attempt" /\ call[c].obj \in Objects
    BY DEF Idle
  <2>2. call[c].obj # o
    BY <2>1 DEF Busy
  <2> QED  BY <1>1, <2>1, <2>2 DEF AttemptInv
<1>4. RemovedIsClosed'
  <2> SUFFICES ASSUME NEW x \in Objects, idOf[x] # "none", x \notin Managed, link'[x].handle
               PROVE x \in orphan \/ link'[x].status # "Connected"
    BY DEF RemovedIsClosed, Managed
  <2>1. CASE x = o
    BY <1>1, <2>1 DEF OrphanInv, Created
  <2>2. CASE x # o
    BY <1>1, <2>2 DEF RemovedIsClosed
  <2> QED  BY <2>1, <2>2
<1> QED  BY <1>1, <1>2, <1>3, <1>4

\* A step that leaves the links alone.
LEMMA LinksKept ==
  ASSUME HInv, UNCHANGED <<devices, idOf, orphan, link>>,
         \A c \in Callers : call'[c].op = "attempt" => call[c].op = "attempt" /\ call'[c].obj = call[c].obj
  PROVE  LinksGood' /\ AttemptInv' /\ RemovedIsClosed'
<1> USE DEF HInv
<1>1. LinksGood' /\ RemovedIsClosed'
  BY DEF LinksGood, RemovedIsClosed, Managed
<1>2. AttemptInv'
  BY DEF AttemptInv
<1> QED  BY <1>1, <1>2

\* A step that leaves the scan and the event channel alone and does not panic.
LEMMA ScanKept ==
  ASSUME HInv, UNCHANGED <<scanVars, eventChan, crashed>>
  PROVE  ScanInv' /\ PanicOnlyWhenStopping'
BY DEF HInv, scanVars, ScanInv, PanicOnlyWhenStopping

-----------------------------------------------------------------------------
(* The steps *)

\* What a caller can be doing.
CallRecord == {Idle} \cup [op : Ops, obj : Objects, tries : 0..RetryCount]

\* A new device gets the next object, which nobody has yet.
LEMMA AddKeepsHInv ==
  ASSUME HInv, NEW i \in Ids, AddDevice(i)
  PROVE  HInv'
<1> USE DEF HInv, Types
<1>0. /\ MaxObjects \in Nat /\ Objects = 1..MaxObjects /\ 0 \notin Objects /\ "none" \notin Ids
      /\ devices[i] = 0
  BY HardwareAssumption DEF Objects, AddDevice
<1>1. PICK o \in Objects :
        /\ o = Cardinality(Created) + 1
        /\ devices' = [devices EXCEPT ![i] = o] /\ idOf' = [idOf EXCEPT ![o] = i]
        /\ auto' = auto \cup {o}
  BY DEF AddDevice, Created
<1>2. /\ configs' = configs \cup {i} /\ crashed' = (crashed \/ ~eventChan)
      /\ UNCHANGED <<link, call, scanVars, rec, ctxDone, eventChan, stopPc, orphan>>
  BY DEF AddDevice, Emit
<1>3. PICK k \in 0..MaxObjects : Created = 1..k
  BY DEF NumberInv
<1>4. o = k + 1
  <2>1. Cardinality(1..k) = k
    BY <1>0, <1>3, IntervalCount
  <2> QED  BY <1>0, <1>1, <1>3, <2>1
<1>5. idOf[o] = "none" /\ o \notin Created
  BY <1>0, <1>3, <1>4 DEF Created
<1>6. Created' = Created \cup {o} /\ Managed' = Managed \cup {o}
  <2>1. idOf'[o] = i /\ \A x \in Objects \ {o} : idOf'[x] = idOf[x]
    BY <1>1
  <2>2. Created' = Created \cup {o}
    BY <1>0, <2>1 DEF Created
  <2>3. devices'[i] = o /\ devices[i] = 0 /\ \A j \in Ids \ {i} : devices'[j] = devices[j]
    BY <1>0, <1>1
  <2>4. ASSUME NEW x PROVE x \in Managed' <=> x \in Managed \/ x = o
    <3>1. x \in Managed' <=> x # 0 /\ \E j \in Ids : devices'[j] = x
      BY DEF Managed
    <3>2. x \in Managed <=> x # 0 /\ \E j \in Ids : devices[j] = x
      BY DEF Managed
    <3> QED  BY <1>0, <2>3, <3>1, <3>2
  <2> QED  BY <2>2, <2>4
<1>7. Types'
  <2>1. devices' \in [Ids -> 0..MaxObjects] /\ idOf' \in [Objects -> Ids \cup {"none"}]
    BY <1>0, <1>1
  <2>2. crashed' \in BOOLEAN
    BY <1>2
  <2> QED  BY <1>1, <1>2, <2>1, <2>2 DEF scanVars
<1>8. LinksGood' /\ AttemptInv'
  BY <1>2 DEF LinksGood, AttemptInv
<1>9. NumberInv'
  <2>1. k + 1 \in 0..MaxObjects /\ 1..(k + 1) = (1..k) \cup {k + 1}
    BY <1>0, <1>4
  <2> QED  BY <1>3, <1>4, <1>6, <2>1 DEF NumberInv
<1>10. TableInv'
  BY <1>0, <1>1, <1>2, <1>5 DEF TableInv
<1>11. OrphanInv'
  <2> SUFFICES ASSUME NEW x \in Created \ Managed, x # o, AboutToConnect(x)' PROVE x \in orphan
    BY <1>2, <1>6 DEF OrphanInv
  <2>1. idOf'[x] = idOf[x]
    BY <1>1 DEF Created
  <2>2. AboutToConnect(x)
    BY <1>1, <1>2, <2>1 DEF AboutToConnect
  <2> QED  BY <2>2 DEF OrphanInv
<1>12. RemovedIsClosed'
  <2> SUFFICES ASSUME NEW x \in Objects, idOf'[x] # "none", x \notin Managed', link[x].handle
               PROVE x \in orphan \/ link[x].status # "Connected"
    BY <1>2 DEF RemovedIsClosed
  <2>1. x # o /\ x \notin Managed
    BY <1>6
  <2>2. idOf[x] # "none"
    BY <1>1, <2>1
  <2> QED  BY <2>1, <2>2 DEF RemovedIsClosed
<1>13. ScanInv' /\ PanicOnlyWhenStopping'
  BY <1>2 DEF ScanInv, PanicOnlyWhenStopping, scanVars
<1> QED  BY <1>7, <1>8, <1>9, <1>10, <1>11, <1>12, <1>13

\* What RemoveDevice and Stop make of a link: it is good, and it is not an open connection.
LEMMA ClosedGood ==
  ASSUME HInv, NEW o \in Objects, NEW l \in Closed(o)
  PROVE  GoodLink(l) /\ (~l.handle \/ l.status # "Connected")
<1>1. GoodLink(link[o])
  BY DEF HInv, LinksGood
<1> QED  BY <1>1, DisconnectGood DEF Closed

\* A device that leaves the table is closed, or else remembered as one that somebody was about
\* to connect.
LEMMA RemoveKeepsHInv ==
  ASSUME HInv, WaitInv, NEW i \in Ids, RemoveDevice(i)
  PROVE  HInv'
<1> DEFINE o == devices[i]
<1> USE DEF HInv, Types
<1>0. /\ MaxObjects \in Nat /\ Objects = 1..MaxObjects /\ 0 \notin Objects /\ "none" \notin Ids
      /\ o \in Objects /\ ~Busy(o) /\ idOf[o] = i
  <2>1. o # 0 /\ ~Busy(o)
    BY DEF RemoveDevice, MutexFree, WaitInv
  <2> QED  BY <2>1, HardwareAssumption DEF Objects, TableInv
<1>1. PICK l \in Closed(o) : link' = [link EXCEPT ![o] = l]
  BY DEF RemoveDevice
<1>2. /\ devices' = [devices EXCEPT ![i] = 0] /\ configs' = configs \ {i}
      /\ orphan' = IF AboutToConnect(o) THEN orphan \cup {o} ELSE orphan
      /\ crashed' = (crashed \/ ~eventChan)
      /\ UNCHANGED <<idOf, auto, call, scanVars, rec, ctxDone, eventChan, stopPc>>
  BY DEF RemoveDevice, Emit
<1>3. GoodLink(l) /\ (~l.handle \/ l.status # "Connected")
  BY <1>0, ClosedGood
<1> HIDE DEF o
<1>4. link' \in [Objects -> Link] /\ link'[o] = l /\ \A x \in Objects \ {o} : link'[x] = link[x]
  BY <1>0, <1>1, <1>3 DEF GoodLink
<1>5. Created' = Created /\ Managed' = Managed \ {o}
  <2>1. Created' = Created
    BY <1>2 DEF Created
  <2>2. \A j \in Ids \ {i} : devices[j] # o
    BY <1>0 DEF TableInv
  <2>3. devices[i] = o /\ devices'[i] = 0 /\ \A j \in Ids \ {i} : devices'[j] = devices[j]
    BY <1>2 DEF o
  <2>4. ASSUME NEW x PROVE x \in Managed' <=> x \in Managed /\ x # o
    <3>1. x \in Managed' <=> x # 0 /\ \E j \in Ids : devices'[j] = x
      BY DEF Managed
    <3>2. x \in Managed <=> x # 0 /\ \E j \in Ids : devices[j] = x
      BY DEF Managed
    <3> QED  BY <1>0, <2>2, <2>3, <3>1, <3>2
  <2> QED  BY <2>1, <2>4
<1>6. Types'
  <2>1. devices' \in [Ids -> 0..MaxObjects]
    BY <1>0, <1>2
  <2>2. crashed' \in BOOLEAN /\ orphan' \subseteq Objects
    BY <1>0, <1>2
  <2> QED  BY <1>2, <1>4, <2>1, <2>2 DEF scanVars
<1>7. LinksGood'
  BY <1>3, <1>4 DEF LinksGood
<1>8. AttemptInv'
  <2> SUFFICES ASSUME NEW c \in Callers, call[c].op = "attempt" PROVE link'[call[c].obj].handle
    BY <1>2 DEF AttemptInv
  <2>1. call[c].obj \in Objects \ {o}
    BY <1>0 DEF Busy, Idle
  <2> QED  BY <1>4, <2>1 DEF AttemptInv
<1>9. NumberInv'
  BY <1>5 DEF NumberInv
<1>10. TableInv'
  BY <1>2 DEF TableInv
<1>11. OrphanInv'
  <2>1. ASSUME NEW x \in Created PROVE AboutToConnect(x)' = AboutToConnect(x)
    BY <1>2 DEF AboutToConnect
  <2> SUFFICES ASSUME NEW x \in Created, x \notin Managed \/ x = o, AboutToConnect(x) PROVE x \in orphan'
    BY <1>5, <2>1 DEF OrphanInv
  <2> QED  BY <1>2 DEF OrphanInv
<1>12. RemovedIsClosed'
  <2> SUFFICES ASSUME NEW x \in Objects, idOf[x] # "none", x \notin Managed \/ x = o, link'[x].handle
               PROVE x \in orphan' \/ link'[x].status # "Connected"
    BY <1>2, <1>5 DEF RemovedIsClosed
  <2>1. CASE x = o
    BY <1>3, <1>4, <2>1
  <2>2. CASE x # o
    BY <1>2, <1>4, <2>2 DEF RemovedIsClosed
  <2> QED  BY <2>1, <2>2
<1>13. ScanInv' /\ PanicOnlyWhenStopping'
  BY <1>2 DEF ScanInv, PanicOnlyWhenStopping, scanVars
<1> QED  BY <1>6, <1>7, <1>8, <1>9, <1>10, <1>11, <1>12, <1>13

\* A goroutine that begins to wait for an object changes nothing else.
LEMMA WaitKeepsHInv ==
  ASSUME HInv, UNCHANGED <<waitVars, link>>
  PROVE  HInv'
<1> USE DEF waitVars
<1>1. Types'
  BY DEF HInv, Types, scanVars
<1>2. NumberInv' /\ TableInv' /\ OrphanInv'
  BY TableKept
<1>3. LinksGood' /\ AttemptInv' /\ RemovedIsClosed'
  BY LinksKept
<1>4. ScanInv' /\ PanicOnlyWhenStopping'
  BY ScanKept
<1> QED  BY <1>1, <1>2, <1>3, <1>4 DEF HInv

\* The listener's Read neither opens nor closes anything.
LEMMA ListenerKeepsHInv ==
  ASSUME HInv, NEW o \in Objects, ListenerReads(o) \/ ListenerReturns(o)
  PROVE  HInv'
<1>1. link \in [Objects -> Link] /\ \A x \in Objects : GoodLink(link[x])
  BY DEF HInv, Types, LinksGood
<1>2. PICK b \in BOOLEAN : /\ link' = [link EXCEPT ![o] = [@ EXCEPT !.reading = b]]
                           /\ b => link[o].handle /\ link[o].proto = "serial"
  BY DEF ListenerReads, ListenerReturns, Listening, Heard, CanListen
<1>3. UNCHANGED <<waitVars, holder>>
  BY DEF ListenerReads, ListenerReturns
<1>4. \A x \in Objects : /\ GoodLink(link'[x])
                         /\ link'[x].handle = link[x].handle /\ link'[x].status = link[x].status
  BY <1>1, <1>2 DEF GoodLink, Link
<1>5. link' \in [Objects -> Link] /\ LinksGood'
  BY <1>1, <1>2, <1>4 DEF LinksGood, GoodLink
<1>6. Types'
  BY <1>3, <1>5 DEF HInv, Types, waitVars, scanVars
<1>7. NumberInv' /\ TableInv' /\ OrphanInv'
  BY <1>3, TableKept DEF waitVars
<1>8. RemovedIsClosed'
  BY <1>3, <1>4 DEF HInv, RemovedIsClosed, Managed, waitVars
<1>9. AttemptInv'
  BY <1>3, <1>4 DEF HInv, AttemptInv, waitVars, Types, Idle
<1>10. ScanInv' /\ PanicOnlyWhenStopping'
  BY <1>3, ScanKept DEF waitVars
<1> QED  BY <1>5, <1>6, <1>7, <1>8, <1>9, <1>10 DEF HInv

\* Operations of a caller on the object it looked up.
LEMMA CallKeepsHInv ==
  ASSUME HInv, NEW c \in Callers,
         CallStep(c) \/ IOStep(c) \/ \E op \in Calls : Lookup(c, op)
  PROVE  HInv'
<1>0. /\ MaxObjects \in Nat /\ Objects = 1..MaxObjects /\ 0 \notin Objects /\ RetryCount \in Nat
      /\ call \in [Callers -> CallRecord] /\ devices \in [Ids -> 0..MaxObjects]
      /\ link \in [Objects -> Link]
  BY HardwareAssumption DEF Objects, HInv, Types, CallRecord
<1> DEFINE o == call[c].obj
<1>1. ASSUME NEW r \in CallRecord, call' = [call EXCEPT ![c] = r],
             r.op \in {"connect", "reconnect"} => r.obj \in Managed,
             r.op = "attempt" => r.obj = o /\ link[o].handle,
             UNCHANGED <<devices, configs, idOf, link, auto, scanVars, rec, ctxDone, eventChan, stopPc, crashed, orphan>>
      PROVE HInv'
  <2>1. call' \in [Callers -> CallRecord] /\ call'[c] = r /\ \A d \in Callers \ {c} : call'[d] = call[d]
    BY <1>0, <1>1
  <2>2. Types'
    BY <1>1, <2>1 DEF HInv, Types, CallRecord, scanVars
  <2>3. NumberInv' /\ TableInv' /\ OrphanInv'
    BY <1>1, <2>1, TableKept
  <2>4. LinksGood' /\ RemovedIsClosed'
    BY <1>1 DEF HInv, LinksGood, RemovedIsClosed, Managed
  <2>5. AttemptInv'
    BY <1>1, <2>1 DEF HInv, AttemptInv
  <2>6. ScanInv' /\ PanicOnlyWhenStopping'
    BY <1>1, ScanKept
  <2> QED  BY <2>2, <2>3, <2>4, <2>5, <2>6 DEF HInv
<1>2. Idle \in CallRecord /\ Idle.op = "idle"
  BY DEF CallRecord, Idle
<1>3. ASSUME NEW op \in Calls, Lookup(c, op) PROVE HInv'
  <2>1. PICK i \in Ids : devices[i] # 0 /\ call' = [call EXCEPT ![c] = [op |-> op, obj |-> devices[i], tries |-> 0]]
    BY <1>3 DEF Lookup
  <2> DEFINE r == [op |-> op, obj |-> devices[i], tries |-> 0]
  <2>2. r \in CallRecord /\ r.op = op /\ r.obj \in Managed
    BY <1>0, <2>1 DEF CallRecord, Calls, Ops, Managed
  <2> HIDE DEF r
  <2> QED  BY <1>1, <1>3, <2>1, <2>2 DEF Lookup, Calls, r
<1>4. call[c].op # "idle" => call[c] \in [op : Ops, obj : Objects, tries : 0..RetryCount]
  BY <1>0 DEF CallRecord, Idle
<1>5. CASE Operate(c)
  <2>1. /\ call[c].op \in {"connect", "disconnect", "reconnect"} /\ ~Busy(o)
        /\ call' = [call EXCEPT ![c] = Idle]
        /\ UNCHANGED <<devices, configs, idOf, auto, scanVars, rec, ctxDone, eventChan, stopPc, crashed, orphan>>
    BY <1>5 DEF Operate, MutexFree
  <2>2. o \in Objects
    BY <1>4, <2>1
  <2>3. GoodLink(link[o])
    BY <2>2 DEF HInv, LinksGood
  <2>4. PICK m : /\ link' = [link EXCEPT ![o] = m] /\ GoodLink(m)
                 /\ call[c].op = "disconnect" => ~m.handle
    BY <1>5, <2>1, <2>3, ConnectGood, DisconnectGood, ReconnectGood DEF Operate
  <2>5. AboutToConnect(o) \/ ~m.handle
    BY <2>1, <2>4 DEF AboutToConnect
  <2>6. /\ call' \in [Callers -> CallRecord] /\ call'[c].op = "idle"
        /\ \A d \in Callers \ {c} : call'[d] = call[d]
    BY <1>0, <1>2, <2>1
  <2>7. LinksGood' /\ AttemptInv' /\ RemovedIsClosed' /\ link' \in [Objects -> Link]
    <3>1. \A d \in Callers : call'[d].op = "attempt" => call'[d] = call[d]
      BY <2>6
    <3> HIDE DEF o
    <3> QED  BY <2>1, <2>2, <2>4, <2>5, <3>1, LinkStep
  <2>8. Types'
    BY <2>1, <2>6, <2>7 DEF HInv, Types, CallRecord, scanVars
  <2>9. NumberInv' /\ TableInv' /\ OrphanInv'
    <3>1. \A d \in Callers : call'[d] = call[d] \/ call'[d].op \notin {"connect", "reconnect"}
      BY <2>6
    <3> QED  BY <2>1, <3>1, TableKept
  <2>10. ScanInv' /\ PanicOnlyWhenStopping'
    BY <2>1, ScanKept
  <2> QED  BY <2>7, <2>8, <2>9, <2>10 DEF HInv
<1>6. CASE IOBegin(c)
  <2>1. call[c].op = "io" /\ o \in Objects
    BY <1>4, <1>6 DEF IOBegin
  <2>2. PICK named \in BOOLEAN, defined \in BOOLEAN :
          call' = [call EXCEPT ![c] = IF Accepts(link[o], named, defined) THEN [@ EXCEPT !.op = "attempt"] ELSE Idle]
    BY <1>6 DEF IOBegin
  <2>3. CASE ~Accepts(link[o], named, defined)
    <3>1. call' = [call EXCEPT ![c] = Idle]
      BY <2>2, <2>3
    <3> QED  BY <1>1, <1>2, <1>6, <3>1 DEF IOBegin
  <2>4. CASE Accepts(link[o], named, defined)
    <3> DEFINE r == [call[c] EXCEPT !.op = "attempt"]
    <3>1. call' = [call EXCEPT ![c] = r]
      BY <2>2, <2>4
    <3>2. r \in CallRecord /\ r.op = "attempt" /\ r.obj = o
      BY <1>4, <2>1 DEF CallRecord, Ops
    <3>3. link[o].handle
      BY <2>1, <2>4, AcceptedHasHandle DEF HInv, LinksGood
    <3> HIDE DEF r
    <3> QED  BY <1>1, <1>6, <3>1, <3>2, <3>3 DEF IOBegin
  <2> QED  BY <2>3, <2>4
<1>7. CASE IORetries(c)
  <2> DEFINE r == [call[c] EXCEPT !.tries = @ + 1]
  <2>1. call' = [call EXCEPT ![c] = r] /\ call[c].op = "attempt" /\ call[c].tries < RetryCount
    BY <1>7 DEF IORetries
  <2>2. r \in CallRecord /\ r.op = "attempt" /\ r.obj = o
    BY <1>0, <1>4, <2>1 DEF CallRecord, Ops
  <2>3. link[o].handle
    BY <2>1 DEF HInv, AttemptInv
  <2> HIDE DEF r
  <2> QED  BY <1>1, <1>7, <2>1, <2>2, <2>3 DEF IORetries
<1>8. CASE IOEnds(c)
  BY <1>1, <1>2, <1>8 DEF IOEnds
<1>9. CASE CallWaits(c)
  BY <1>9, WaitKeepsHInv DEF CallWaits
<1> QED  BY <1>3, <1>5, <1>6, <1>7, <1>8, <1>9 DEF CallStep, IOStep

\* Every step of the manager preserves the invariant.
LEMMA HInvStep == HardwareInv /\ [Next]_vars => HInv'
<1> SUFFICES ASSUME HInv, WaitInv, [Next]_vars PROVE HInv'
  BY DEF HardwareInv
<1>0. /\ MaxObjects \in Nat /\ Objects = 1..MaxObjects /\ 0 \notin Objects /\ -1 \notin Objects
      /\ "none" \notin Ids
  BY HardwareAssumption DEF Objects
<1>1. ASSUME NEW i \in Ids, AddDevice(i) \/ RemoveDevice(i) PROVE HInv'
  BY <1>1, AddKeepsHInv, RemoveKeepsHInv
<1>2. ASSUME NEW i \in Ids, AddDeviceFails(i) PROVE HInv'
  <2> USE <1>2 DEF AddDeviceFails
  <2>1. Types'
    BY DEF HInv, Types, scanVars
  <2>2. NumberInv' /\ TableInv' /\ OrphanInv'
    BY TableKept
  <2>3. LinksGood' /\ AttemptInv' /\ RemovedIsClosed'
    BY LinksKept
  <2>4. ScanInv' /\ PanicOnlyWhenStopping'
    BY ScanKept
  <2> QED  BY <2>1, <2>2, <2>3, <2>4 DEF HInv
<1>3. ASSUME NEW o \in Objects, AutoConnect(o) PROVE HInv'
  <2>1. PICK l \in ConnectResults(link[o]) : link' = [link EXCEPT ![o] = l]
    BY <1>3 DEF AutoConnect
  <2>2. GoodLink(l) /\ AboutToConnect(o) /\ ~Busy(o) /\ auto' \subseteq auto
    BY <1>3, ConnectGood DEF AutoConnect, MutexFree, AboutToConnect, HInv, LinksGood
  <2>3. UNCHANGED <<devices, configs, idOf, call, scanVars, rec, ctxDone, eventChan, stopPc, crashed, orphan>>
    BY <1>3 DEF AutoConnect
  <2>4. LinksGood' /\ AttemptInv' /\ RemovedIsClosed' /\ link' \in [Objects -> Link]
    BY <2>1, <2>2, <2>3, LinkStep
  <2>5. NumberInv' /\ TableInv' /\ OrphanInv'
    BY <2>2, <2>3, TableKept
  <2>6. ScanInv' /\ PanicOnlyWhenStopping'
    BY <2>3, ScanKept
  <2>7. Types'
    BY <2>2, <2>3, <2>4 DEF HInv, Types, scanVars
  <2> QED  BY <2>4, <2>5, <2>6, <2>7 DEF HInv
<1>4. ASSUME NEW c \in Callers,
             CallStep(c) \/ IOStep(c) \/ \E op \in Calls : Lookup(c, op)
      PROVE HInv'
  BY <1>4, CallKeepsHInv
<1>5. ASSUME UNCHANGED <<devices, configs, idOf, link, auto, call, rec, ctxDone, eventChan, stopPc, orphan>>,
             {autoScan', scanTicker', crashed', scanStopped'} \subseteq BOOLEAN,
             scanner' \in {"off", "enter", "select", "scan"}, todo' \subseteq Ids,
             ScanInv', PanicOnlyWhenStopping'
      PROVE HInv'
  <2>1. Types'
    BY <1>5 DEF HInv, Types
  <2>2. NumberInv' /\ TableInv' /\ OrphanInv'
    BY <1>5, TableKept
  <2>3. LinksGood' /\ AttemptInv' /\ RemovedIsClosed'
    BY <1>5, LinksKept
  <2> QED  BY <1>5, <2>1, <2>2, <2>3 DEF HInv
<1>6. CASE StartAutoScan \/ StopAutoScan
  BY <1>5, <1>6 DEF StartAutoScan, StopAutoScan, HInv, Types, ScanInv, PanicOnlyWhenStopping
<1>7. CASE ScanEnter \/ ScanTick \/ ScanExit
  BY <1>5, <1>7 DEF ScanEnter, ScanTick, ScanExit, HInv, Types, ScanInv, PanicOnlyWhenStopping
<1>8. ASSUME NEW rec1 \in [Ids -> NoRec..MaxObjects], rec' = rec1,
             \A i \in Ids : rec1[i] = rec[i] \/ rec1[i] \notin Objects \/ rec1[i] = devices[i],
             UNCHANGED <<devices, configs, idOf, link, auto, call, autoScan, scanTicker, scanStopped, ctxDone, eventChan, stopPc, crashed, orphan>>,
             scanner' \in {scanner, "scan", "enter"}, scanner = "off" => scanner' = "off", todo' \subseteq Ids,
             scanAt' # 0 => scanner' = "scan"
      PROVE HInv'
  <2>1. Types'
    BY <1>8 DEF HInv, Types
  <2>2. NumberInv' /\ TableInv' /\ OrphanInv'
    BY <1>8, TableKept
  <2>3. LinksGood' /\ AttemptInv' /\ RemovedIsClosed'
    BY <1>8, LinksKept
  <2>4. ScanInv' /\ PanicOnlyWhenStopping'
    BY <1>8 DEF HInv, ScanInv, PanicOnlyWhenStopping
  <2> QED  BY <2>1, <2>2, <2>3, <2>4 DEF HInv
<1>9. ASSUME NEW i \in Ids, ScanOne(i) PROVE HInv'
  <2>1. /\ rec' \in [Ids -> NoRec..MaxObjects]
        /\ \A j \in Ids : rec'[j] = rec[j] \/ rec'[j] \notin Objects
    BY <1>0, <1>9 DEF ScanOne, Asked, HInv, Types, NoRec, Started
  <2>2. todo' \subseteq Ids /\ scanner' \in {"scan", "enter"} /\ scanner # "off" /\ scanAt' = 0
    BY <1>9 DEF ScanOne, HInv, Types
  <2> QED  BY <1>8, <1>9, <2>1, <2>2 DEF ScanOne
<1>10. ASSUME NEW i \in Ids, ReconnectLookup(i) PROVE HInv'
  <2>1. /\ rec' \in [Ids -> NoRec..MaxObjects]
        /\ \A j \in Ids : rec'[j] = rec[j] \/ rec'[j] \notin Objects \/ rec'[j] = devices[j]
    BY <1>0, <1>10 DEF ReconnectLookup, HInv, Types, NoRec
  <2>2. todo' \subseteq Ids /\ scanner' = scanner /\ (scanAt' # 0 => scanner = "scan")
    BY <1>10 DEF ReconnectLookup, HInv, Types, ScanInv, scanVars
  <2> QED  BY <1>8, <1>10, <2>1, <2>2 DEF ReconnectLookup, scanVars
<1>11. ASSUME NEW i \in Ids, ReconnectRun(i) PROVE HInv'
  <2> DEFINE o == rec[i]
  <2>1. /\ o \in Objects /\ ~Busy(o) /\ rec' = [rec EXCEPT ![i] = NoRec]
        /\ UNCHANGED <<devices, configs, idOf, auto, call, scanVars, ctxDone, eventChan, stopPc, crashed, orphan>>
    BY <1>11 DEF ReconnectRun, MutexFree
  <2>2. PICK l \in ReconnectResults(link[o]) : link' = [link EXCEPT ![o] = l]
    BY <1>11 DEF ReconnectRun
  <2>3. GoodLink(l) /\ AboutToConnect(o)
    BY <2>1, ReconnectGood DEF AboutToConnect, HInv, LinksGood, TableInv
  <2>4. LinksGood' /\ AttemptInv' /\ RemovedIsClosed' /\ link' \in [Objects -> Link]
    <3> HIDE DEF o
    <3> QED  BY <2>1, <2>2, <2>3, LinkStep
  <2>5. /\ rec' \in [Ids -> NoRec..MaxObjects]
        /\ \A j \in Ids : rec'[j] = rec[j] \/ rec'[j] \notin Objects
    BY <1>0, <2>1 DEF HInv, Types, NoRec
  <2>6. NumberInv' /\ TableInv' /\ OrphanInv'
    BY <2>1, <2>5, TableKept
  <2>7. ScanInv' /\ PanicOnlyWhenStopping'
    BY <2>1, ScanKept
  <2>8. Types'
    BY <2>1, <2>4, <2>5 DEF HInv, Types, scanVars
  <2> QED  BY <2>4, <2>6, <2>7, <2>8 DEF HInv
<1>12. CASE StopCancel \/ StopLocks
  <2> USE <1>12 DEF StopCancel, StopLocks
  <2>1. Types'
    BY DEF HInv, Types, scanVars
  <2>2. NumberInv' /\ TableInv' /\ OrphanInv'
    BY TableKept
  <2>3. LinksGood' /\ AttemptInv' /\ RemovedIsClosed'
    BY LinksKept
  <2>4. ScanInv' /\ PanicOnlyWhenStopping'
    BY ScanKept
  <2> QED  BY <2>1, <2>2, <2>3, <2>4 DEF HInv
<1>13. CASE StopDevices
  <2>1. PICK new \in [Managed -> Link] :
          /\ \A o \in Managed : new[o] \in Closed(o)
          /\ link' = [o \in Objects |-> IF o \in Managed THEN new[o] ELSE link[o]]
    BY <1>13 DEF StopDevices
  <2>2. /\ \A o \in Managed : ~Busy(o)
        /\ UNCHANGED <<devices, configs, idOf, auto, call, scanVars, rec, ctxDone, crashed, orphan>>
        /\ stopPc' \in {"selfLocked", "done"} /\ eventChan' = (eventChan /\ autoScan)
    BY <1>13 DEF StopDevices, MutexFree
  <2>3. Managed \subseteq Objects /\ Managed' = Managed
    BY <1>0, <2>2 DEF Managed, HInv, Types
  <2>4. \A o \in Objects : GoodLink(link'[o])
    BY <2>1, <2>3, ClosedGood DEF HInv, LinksGood
  <2>5. LinksGood' /\ link' \in [Objects -> Link]
    BY <2>1, <2>3, <2>4 DEF LinksGood, HInv, Types
  <2>6. AttemptInv'
    <3> SUFFICES ASSUME NEW c \in Callers, call[c].op = "attempt" PROVE link'[call[c].obj].handle
      BY <2>2 DEF AttemptInv
    <3>1. call[c].obj \in Objects \ Managed
      BY <2>2 DEF Busy, HInv, Types, Idle
    <3> QED  BY <2>1, <3>1 DEF HInv, AttemptInv
  <2>7. RemovedIsClosed'
    BY <2>1, <2>2, <2>3 DEF HInv, RemovedIsClosed
  <2>8. NumberInv' /\ TableInv' /\ OrphanInv'
    BY <2>2, TableKept
  <2>9. ScanInv' /\ PanicOnlyWhenStopping'
    BY <2>2 DEF HInv, ScanInv, PanicOnlyWhenStopping, scanVars
  <2>10. Types'
    BY <2>2, <2>5 DEF HInv, Types, scanVars
  <2> QED  BY <2>5, <2>6, <2>7, <2>8, <2>9, <2>10 DEF HInv
<1>14. CASE UNCHANGED vars
  BY <1>14, WaitKeepsHInv DEF vars, waitVars, scanVars
<1>15. ASSUME NEW i \in Ids, ScanWaits(i) PROVE HInv'
  <2>1. rec \in [Ids -> NoRec..MaxObjects] /\ todo' \subseteq Ids
    BY <1>15 DEF ScanWaits, HInv, Types
  <2> QED  BY <1>8, <1>15, <2>1 DEF ScanWaits
<1>16. CASE ScanAsk
  <2>1. /\ rec' \in [Ids -> NoRec..MaxObjects]
        /\ \A j \in Ids : rec'[j] = rec[j] \/ rec'[j] \notin Objects
    <3>1. PICK x : rec' = rec \/ rec' = [rec EXCEPT ![x] = Started]
      BY <1>16 DEF ScanAsk, Asked
    <3> QED  BY <1>0, <3>1 DEF HInv, Types, NoRec, Started
  <2>2. /\ todo' \subseteq Ids /\ scanner' \in {"scan", "enter"} /\ scanner # "off" /\ scanAt' = 0
    BY <1>16 DEF ScanAsk, HInv, Types, ScanInv
  <2> QED  BY <1>8, <1>16, <2>1, <2>2 DEF ScanAsk
<1>17. ASSUME NEW i \in Ids, RemoveLocks(i) PROVE HInv'
  <2> USE <1>17 DEF RemoveLocks
  <2>1. Types'
    BY DEF HInv, Types, scanVars
  <2>2. NumberInv' /\ TableInv' /\ OrphanInv'
    BY TableKept
  <2>3. LinksGood' /\ AttemptInv' /\ RemovedIsClosed'
    BY LinksKept
  <2>4. ScanInv' /\ PanicOnlyWhenStopping'
    BY ScanKept
  <2> QED  BY <2>1, <2>2, <2>3, <2>4 DEF HInv
<1>18. ASSUME NEW i \in Ids, RemoveWaits(i) \/ ReconnectWaits(i) PROVE HInv'
  BY <1>18, WaitKeepsHInv DEF RemoveWaits, ReconnectWaits
<1>19. ASSUME NEW o \in Objects, AutoWaits(o) \/ ListenerReads(o) \/ ListenerReturns(o) PROVE HInv'
  BY <1>19, WaitKeepsHInv, ListenerKeepsHInv DEF AutoWaits
<1>20. env.ids \subseteq Ids
  BY HardwareAssumption DEF WaitInv, Environment
<1>21. CASE Next
  BY <1>1, <1>2, <1>3, <1>4, <1>6, <1>7, <1>9, <1>10, <1>11, <1>12, <1>13, <1>15, <1>16, <1>17, <1>18, <1>19, <1>20, <1>21
     DEF Next, Scan, Reconnect
<1> QED  BY <1>14, <1>21

\* Nor does any step disturb who waits for whom.
LEMMA WaitInvStep == HardwareInv /\ [Next]_vars => WaitInv'
<1> SUFFICES ASSUME HInv, WaitInv, [Next]_vars PROVE WaitInv'
  BY DEF HardwareInv
<1> DEFINE Holders == Callers \cup {"free", "auto", "rec", "remove"}
<1>0. env' = env /\ env.ids \subseteq Ids
  BY HardwareAssumption DEF Next, vars, WaitInv, Environment
<1>1. devices \in [Ids -> 0..MaxObjects] /\ MaxObjects \in Nat /\ 0 \notin Objects
  BY HardwareAssumption DEF HInv, Types, Objects
<1>2. ASSUME UNCHANGED <<devices, removing>>, scanAt' \in 0..MaxObjects, holder' \in [Objects -> Holders]
      PROVE WaitInv'
  BY <1>0, <1>2 DEF WaitInv
<1>3. ASSUME NEW o, Unlock(o) PROVE holder' \in [Objects -> Holders]
  BY <1>3 DEF Unlock, WaitInv
<1>4. ASSUME NEW o, NEW by \in Holders, Waits(o, by) PROVE holder' \in [Objects -> Holders]
  BY <1>4 DEF Waits, WaitInv
<1>5. scanAt \in 0..MaxObjects /\ holder \in [Objects -> Holders]
  BY DEF WaitInv
<1>6. ASSUME UNCHANGED <<devices, scanAt, lockVars>> PROVE WaitInv'
  BY <1>2, <1>5, <1>6 DEF lockVars
<1>7. ASSUME NEW i \in env.ids, AddDevice(i) PROVE WaitInv'
  <2>1. PICK o \in Objects : devices' = [devices EXCEPT ![i] = o]
    BY <1>7 DEF AddDevice
  <2>2. \A j \in Ids : devices[j] # 0 => devices'[j] # 0
    BY <1>1, <2>1
  <2> QED  BY <1>0, <1>5, <1>7, <2>2 DEF AddDevice, lockVars, scanVars, WaitInv
<1>8. ASSUME NEW i \in Ids, RemoveLocks(i) PROVE WaitInv'
  BY <1>0, <1>5, <1>8 DEF RemoveLocks, scanVars, WaitInv
<1>9. ASSUME NEW i \in Ids, RemoveDevice(i) PROVE WaitInv'
  <2>1. removing' = "none" /\ scanAt' = scanAt /\ Unlock(devices[i])
    BY <1>9 DEF RemoveDevice, scanVars
  <2> QED  BY <1>0, <1>3, <1>5, <2>1, HardwareAssumption DEF WaitInv
<1>10. ASSUME NEW i \in Ids, RemoveWaits(i) \/ Reconnect(i) PROVE WaitInv'
  <2>1. CASE RemoveWaits(i)
    BY <1>2, <1>4, <1>5, <2>1 DEF RemoveWaits, waitVars, scanVars
  <2>2. CASE ReconnectLookup(i)
    BY <1>6, <2>2 DEF ReconnectLookup, scanVars
  <2>3. CASE ReconnectRun(i)
    BY <1>2, <1>3, <1>5, <2>3 DEF ReconnectRun, scanVars
  <2>4. CASE ReconnectWaits(i)
    BY <1>2, <1>4, <1>5, <2>4 DEF ReconnectWaits, waitVars, scanVars
  <2> QED  BY <1>10, <2>1, <2>2, <2>3, <2>4 DEF Reconnect
<1>11. ASSUME NEW o \in Objects, AutoConnect(o) \/ AutoWaits(o) \/ ListenerReads(o) \/ ListenerReturns(o)
       PROVE WaitInv'
  <2>1. CASE AutoConnect(o)
    BY <1>2, <1>3, <1>5, <2>1 DEF AutoConnect, scanVars
  <2>2. CASE AutoWaits(o)
    BY <1>2, <1>4, <1>5, <2>2 DEF AutoWaits, waitVars, scanVars
  <2>3. CASE ListenerReads(o) \/ ListenerReturns(o)
    BY <1>2, <1>5, <2>3 DEF ListenerReads, ListenerReturns, waitVars, scanVars
  <2> QED  BY <1>11, <2>1, <2>2, <2>3
<1>12. ASSUME NEW c \in Callers, CallStep(c) \/ IOStep(c) \/ \E op \in Calls : Lookup(c, op) PROVE WaitInv'
  <2>1. CASE Operate(c)
    BY <1>2, <1>3, <1>5, <2>1 DEF Operate, scanVars
  <2>2. CASE CallWaits(c)
    BY <1>2, <1>4, <1>5, <2>2 DEF CallWaits, waitVars, scanVars
  <2>3. CASE IOBegin(c) \/ IORetries(c) \/ IOEnds(c) \/ \E op \in Calls : Lookup(c, op)
    BY <1>6, <2>3 DEF IOBegin, IORetries, IOEnds, Lookup, scanVars
  <2> QED  BY <1>12, <2>1, <2>2, <2>3 DEF CallStep, IOStep
<1>13. CASE StartAutoScan \/ StopAutoScan \/ ScanEnter \/ ScanTick \/ ScanExit
  BY <1>6, <1>13 DEF StartAutoScan, StopAutoScan, ScanEnter, ScanTick, ScanExit
<1>14. ASSUME NEW i \in Ids, ScanOne(i) \/ ScanWaits(i) PROVE WaitInv'
  BY <1>1, <1>2, <1>5, <1>14 DEF ScanOne, ScanWaits, lockVars
<1>15. CASE ScanAsk
  <2>1. scanAt' \in 0..MaxObjects
    BY <1>1, <1>15 DEF ScanAsk
  <2> QED  BY <1>2, <1>5, <1>15, <2>1 DEF ScanAsk, lockVars
<1>16. CASE StopCancel \/ StopLocks \/ StopDevices
  BY <1>6, <1>16 DEF StopCancel, StopLocks, StopDevices, scanVars
<1>17. ASSUME NEW i \in env.ids, AddDeviceFails(i) PROVE WaitInv'
  BY <1>6, <1>17 DEF AddDeviceFails, scanVars
<1>18. CASE UNCHANGED vars
  BY <1>6, <1>18 DEF vars, lockVars
<1>19. CASE Next
  BY <1>7, <1>8, <1>9, <1>10, <1>11, <1>12, <1>13, <1>14, <1>15, <1>16, <1>17, <1>19 DEF Next, Scan
<1> QED  BY <1>18, <1>19

\* The two halves together.
LEMMA HardwareInvStep == HardwareInv /\ [Next]_vars => HardwareInv'
BY HInvStep, WaitInvStep DEF HardwareInv

\* The manager is type-correct; a retry counter, for one, never exceeds RetryCount.
THEOREM HardwareTypeCorrect == Spec => []TypeOK
<1>1. HardwareInv => TypeOK
  BY DEF HardwareInv, HInv, Types, WaitInv, TypeOK
<1> QED  BY HInvInit, HardwareInvStep, <1>1, PTL DEF Spec

\* However many callers connect, disconnect and remove a device, a Read or Write finds its
\* handle at every attempt and a serial listener its port under its Read.
THEOREM HandleStays == Spec => []IOKeepsHandle
<1>1. HardwareInv => IOKeepsHandle
  BY DEF HardwareInv, HInv, AttemptInv, LinksGood, GoodLink, IOKeepsHandle
<1> QED  BY HInvInit, HardwareInvStep, <1>1, PTL DEF Spec

\* A client that reports Connected has a handle unless closing a serial port failed.
THEOREM ConnectedIsOpen == Spec => []ConnectedHasHandle
<1>1. HardwareInv => ConnectedHasHandle
  BY DEF HardwareInv, HInv, LinksGood, GoodLink, ConnectedHasHandle
<1> QED  BY HInvInit, HardwareInvStep, <1>1, PTL DEF Spec

\* A removed device is closed, whatever Connect, scan and AutoConnect were doing meanwhile with
\* it or with the device that took its ID, unless one of them held it to connect it.
THEOREM RemovalCloses == Spec => []RemovedIsClosed
<1>1. HardwareInv => RemovedIsClosed
  BY DEF HardwareInv, HInv
<1> QED  BY HInvInit, HardwareInvStep, <1>1, PTL DEF Spec

\* The manager panics only after Stop closed the event channel or StopAutoScan took the ticker.
THEOREM PanicNeedsStop == Spec => []PanicOnlyWhenStopping
<1>1. HardwareInv => PanicOnlyWhenStopping
  BY DEF HardwareInv, HInv
<1> QED  BY HInvInit, HardwareInvStep, <1>1, PTL DEF Spec
=============================================================================
