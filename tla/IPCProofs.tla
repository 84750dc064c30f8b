------------------------------ MODULE IPCProofs ------------------------------
(***************************************************************************)
(* Proofs about the IPC server and its clients, for any number of clients, *)
(* any scripts and any buffer size: the composition is type-correct, what  *)
(* a client wrote is a beginning of what it sent, a server that stopped    *)
(* left nothing open, and an answer tells which task was scheduled.        *)
(***************************************************************************)
EXTENDS IPCServer, SequenceLemmas

-----------------------------------------------------------------------------
(* The inductive invariants *)

ConnType == [inTable : BOOLEAN, active : BOOLEAN, closed : BOOLEAN, send : Seq(Answer), sendClosed : BOOLEAN,
             handler : {"off", "select", "decode", "done"}, sender : {"off", "run", "done"}]
JobStates == {"route", "check", "push", "answer", "lookup", "select"}
JobOf(c) == [client : {c}, msg : Messages(c), st : JobStates, resp : Answer]
JobType == UNION {JobOf(c) : c \in Clients}

\* Types of the clients and the wire, and what bounds the receive channel: it is empty while
\* the receiver has a message in hand.
ClientTypes ==
    /\ cli \in [Clients -> UNION {ClientType(c) : c \in Clients}]
    /\ up \in [Clients -> UNION {Seq(Messages(c)) : c \in Clients}]
    /\ down \in [Clients -> Seq(Answer)]
    /\ \A c \in Clients :
        /\ cli[c] \in ClientType(c) /\ up[c] \in Seq(Messages(c))
        /\ Len(cli[c].sendChan) <= BufferSize /\ Len(cli[c].receiveChan) <= 1 /\ Len(cli[c].inHand) <= 1
        /\ cli[c].inHand # <<>> => cli[c].receiveChan = <<>>
        /\ cli[c].sending => cli[c].next <= Len(Script[c])

\* Types of the server.
ServerTypes ==
    /\ srv \in [Clients -> ConnType] /\ \A c \in Clients : Len(srv[c].send) <= BufferSize
    /\ jobs \subseteq JobType
    /\ cliOpen \subseteq Clients /\ srvOpen \subseteq Clients
    /\ phase \in {Phases[i] : i \in 1..6}
    /\ acceptor \in {"loop", "done"} \cup Clients
    /\ stopPc \in {"none", "cancelled", "swept", "done"}
    /\ crashed \in BOOLEAN

TInv == ClientTypes /\ ServerTypes

\* While the client is connected and its sender runs, no accepted message is lost.
Unbroken(s) ==
    /\ s.connected => ~s.cancelled
    /\ s.sender = "off" => /\ s.sent = <<>> /\ s.written = <<>> /\ s.sendChan = <<>>
                           /\ ~s.connected /\ ~s.cancelled /\ ~s.sending
    /\ s.connected /\ s.sender = "run" => s.sent = s.written \o s.sendChan
    /\ Begins(s.written, s.sent)
ChainInv == \A c \in Clients : Unbroken(cli[c])

\* A handler that is done has closed its client, only connected clients are known to the
\* server, and after StopCancels an open connection belongs to a handler or the acceptor.
CloseInv ==
    /\ \A c \in Clients :
        /\ srv[c].handler = "done" => srv[c].closed /\ c \notin srvOpen
        /\ c \in srvOpen \/ Accepted(c) \/ acceptor = c => cli[c].sender # "off"
        /\ Cancelled /\ c \in srvOpen => Accepted(c) \/ acceptor = c
    /\ stopPc = "done" => acceptor = "done" /\ \A c \in Clients : Accepted(c) => srv[c].handler = "done"

\* The answers a client has, and those on their way to it.
Has(s) == Range(s.got) \cup Range(s.receiveChan) \cup Range(s.inHand)
Seen(c) == Has(cli[c]) \cup Range(down[c]) \cup Range(srv[c].send)

\* The messages client c has not sent yet, and those that have not reached its handler, when
\* its record is s and u is on the wire.
Unsent(c, s) == {Script[c][i] : i \in s.next..Len(Script[c])}
OnTheWay(c, s, u) == Range(u) \cup Range(s.sendChan) \cup Unsent(c, s)
Coming(c) == OnTheWay(c, cli[c], up[c])

\* A message is on its way in one place only.
Once(c, s, u) ==
    /\ Distinct(u) /\ Distinct(s.sendChan)
    /\ Range(u) \cap Range(s.sendChan) = {}
    /\ (Range(u) \cup Range(s.sendChan)) \cap Unsent(c, s) = {}
OnceInv == \A c \in Clients : Once(c, cli[c], up[c])

\* Answers, those of goroutines that have one included.
Replied(j) == j.st \in {"lookup", "select"}
Answers == (UNION {Seen(c) : c \in Clients}) \cup {j.resp : j \in {k \in jobs : Replied(k)}}
Answered(id) == \E r \in Answers : r.req = id

\* The tasks made for a request, and the one that belongs to message m.
Made(id) == {t \in tasks : t.req = id}
TaskFor(m) == [req |-> m.id, task |-> TaskOf(m.command)]

\* A message that has not been routed has neither an answer nor a task.  One goroutine at most
\* works on a message until it has the answer; the task is there when only the answer is missing.
Due(j) == IF j.st = "answer" THEN {TaskFor(j.msg)} ELSE {}
UnansweredInv ==
    /\ \A c \in Clients : \A m \in Coming(c) : ~Answered(m.id) /\ Made(m.id) = {} /\ \A j \in jobs : j.msg # m
    /\ \A j \in jobs : ~Replied(j) => /\ ~Answered(j.msg.id) /\ Made(j.msg.id) = Due(j)
                                      /\ \A k \in jobs : k.msg = j.msg => k = j

\* Every answer tells which task its request has.
Truth(r) == \A c \in Clients : \A m \in Messages(c) :
    r.req = m.id /\ MakesTask(m.command) => Made(m.id) = IF r.status = "success" THEN {TaskFor(m)} ELSE {}
TruthInv == \A r \in Answers : Truth(r)

AnswerInv == OnceInv /\ UnansweredInv /\ TruthInv

-----------------------------------------------------------------------------
(* Steps of a client *)

\* A client has a record of the right type, and its script holds its messages.
LEMMA ClientFacts ==
  ASSUME TInv, NEW c \in Clients
  PROVE  /\ cli[c] \in ClientType(c) /\ up[c] \in Seq(Messages(c)) /\ down[c] \in Seq(Answer)
         /\ Len(Script[c]) \in Nat /\ \A i \in 1..Len(Script[c]) : Script[c][i] \in Messages(c)
<1>1. Script[c] \in Seq(Message)
  BY IPCAssumption
<1>2. DOMAIN Script[c] = 1..Len(Script[c]) /\ Len(Script[c]) \in Nat
  BY <1>1, LenProperties
<1> QED  BY <1>2 DEF TInv, ClientTypes, Messages

\* Set replaces the record of one client.
LEMMA SetClient ==
  ASSUME TInv, NEW c \in Clients, NEW n \in ClientType(c), Set(c, n)
  PROVE  /\ cli'[c] = n /\ \A d \in Clients \ {c} : cli'[d] = cli[d]
         /\ cli' \in [Clients -> UNION {ClientType(d) : d \in Clients}]
         /\ \A d \in Clients : cli'[d] \in ClientType(d)
<1>1. cli' = [cli EXCEPT ![c] = n] /\ cli \in [Clients -> UNION {ClientType(d) : d \in Clients}]
  BY DEF Set, TInv, ClientTypes
<1>2. cli'[c] = n /\ \A d \in Clients \ {c} : cli'[d] = cli[d]
  BY <1>1
<1>3. \A d \in Clients : cli'[d] \in ClientType(d)
  BY <1>2 DEF TInv, ClientTypes
<1> QED  BY <1>1, <1>2, <1>3

\* What a step does to the sending side of client c, from record s to record n while the wire
\* goes from u to v: nothing (or a message is refused), a message is accepted, dropped for good,
\* or written.
SendStep(c, s, n, u, v) ==
    /\ n.connected => ~n.cancelled
    /\ n.sender = "off" => s.sender = "off" /\ ~n.connected /\ ~n.cancelled /\ ~n.sending
    /\ n.sending => n.next <= Len(Script[c])
    /\ \/ /\ n.sendChan = s.sendChan /\ n.sent = s.sent /\ n.written = s.written /\ v = u
          /\ n.next \in {s.next, s.next + 1}
          /\ n.connected /\ n.sender = "run" => s.sender = "off" \/ (s.connected /\ s.sender = "run")
       \/ /\ Room(s.sendChan) /\ s.next \in 1..Len(Script[c]) /\ n.sender # "off"
          /\ n.sendChan = Append(s.sendChan, Script[c][s.next]) /\ n.sent = Append(s.sent, Script[c][s.next])
          /\ n.written = s.written /\ n.next = s.next + 1 /\ v = u
          /\ n.connected = s.connected /\ n.sender = s.sender
       \/ /\ s.sendChan # <<>> /\ ~(n.connected /\ n.sender = "run") /\ n.sender # "off"
          /\ n.sendChan = Tail(s.sendChan) /\ n.sent = s.sent /\ n.written = s.written /\ n.next = s.next /\ v = u
       \/ /\ s.sendChan # <<>> /\ s.connected /\ s.sender = "run" /\ n.sender # "off"
          /\ n.sendChan = Tail(s.sendChan) /\ n.written = Append(s.written, Head(s.sendChan))
          /\ n.sent = s.sent /\ n.next = s.next /\ v = Append(u, Head(s.sendChan))

\* The same for the receiving side and the wire to the client, from d to e.
ReceiveStep(s, n, d, e) ==
    \/ n.got = s.got /\ n.receiveChan = s.receiveChan /\ n.inHand = s.inHand /\ e = d
    \/ /\ s.receiveChan # <<>> /\ n.receiveChan = Tail(s.receiveChan)
       /\ n.got = s.got /\ n.inHand = s.inHand /\ e = d
    \/ /\ s.inHand = <<>> /\ s.receiveChan = <<>> /\ d # <<>>
       /\ n.inHand = <<Head(d)>> /\ e = Tail(d) /\ n.got = s.got /\ n.receiveChan = s.receiveChan
    \/ /\ s.inHand # <<>> /\ n.inHand = <<>> /\ e = d
       /\ \/ n.got = s.got \o s.inHand /\ n.receiveChan = s.receiveChan
          \/ n.got = s.got /\ n.receiveChan = s.receiveChan \o s.inHand
          \/ n.got = s.got /\ n.receiveChan = s.receiveChan

\* A step of client c, as the other clients and the server see it.
Moves(c) ==
    /\ \E n \in ClientType(c) : Set(c, n) /\ SendStep(c, cli[c], n, up[c], up'[c]) /\ ReceiveStep(cli[c], n, down[c], down'[c])
    /\ up' \in [Clients -> UNION {Seq(Messages(d)) : d \in Clients}] /\ up'[c] \in Seq(Messages(c))
    /\ down' \in [Clients -> Seq(Answer)]
    /\ \A d \in Clients \ {c} : up'[d] = up[d] /\ down'[d] = down[d]

\* A step that leaves the wire alone.
LEMMA Quiet ==
  ASSUME TInv, NEW c \in Clients, UNCHANGED <<up, down>>, NEW n \in ClientType(c), Set(c, n),
         SendStep(c, cli[c], n, up[c], up[c]), ReceiveStep(cli[c], n, down[c], down[c])
  PROVE  Moves(c)
  BY DEF Moves, TInv, ClientTypes

LEMMA SenderMoves ==
  ASSUME TInv, ChainInv, NEW c \in Clients,
         SendCheck(c) \/ SendSelect(c) \/ SenderDrops(c) \/ SenderEnds(c) \/ SenderWrites(c) \/ SenderFails(c)
  PROVE  Moves(c)
<1>1. /\ cli[c] \in ClientType(c) /\ up[c] \in Seq(Messages(c)) /\ down[c] \in Seq(Answer)
      /\ Len(Script[c]) \in Nat /\ \A i \in 1..Len(Script[c]) : Script[c][i] \in Messages(c)
  BY ClientFacts
<1> DEFINE s == cli[c]
<1>2. /\ s.connected => ~s.cancelled
      /\ s.sender = "off" => s.sendChan = <<>> /\ ~s.connected /\ ~s.cancelled /\ ~s.sending
      /\ s.sending => s.next <= Len(Script[c])
  BY DEF ChainInv, Unbroken, TInv, ClientTypes
<1>3. s.sendChan \in Seq(Messages(c)) /\ s.sent \in Seq(Messages(c)) /\ s.written \in Seq(Messages(c))
  BY <1>1 DEF ClientType
<1>4. s.sendChan # <<>> => Tail(s.sendChan) \in Seq(Messages(c)) /\ Head(s.sendChan) \in Messages(c)
  BY <1>3, HeadTailProperties
<1>5. CASE SendCheck(c)
  <2> DEFINE n == [s EXCEPT !.sending = TRUE]
  <2>1. n \in ClientType(c)
    BY <1>1 DEF ClientType
  <2>2. SendStep(c, s, n, up[c], up[c]) /\ ReceiveStep(s, n, down[c], down[c])
    BY <1>1, <1>2, <1>5 DEF ClientType, SendCheck, SendStep, ReceiveStep
  <2> QED  BY <1>5, <2>1, <2>2, Quiet DEF SendCheck
<1>6. CASE SenderDrops(c)
  <2> DEFINE n == [s EXCEPT !.sendChan = Tail(@), !.sender = "done"]
  <2>1. n \in ClientType(c)
    BY <1>1, <1>4, <1>6 DEF ClientType, SenderDrops
  <2>2. SendStep(c, s, n, up[c], up[c]) /\ ReceiveStep(s, n, down[c], down[c])
    BY <1>1, <1>2, <1>6 DEF ClientType, SenderDrops, SendStep, ReceiveStep
  <2> QED  BY <1>6, <2>1, <2>2, Quiet DEF SenderDrops
<1>7. CASE SenderEnds(c)
  <2> DEFINE n == [s EXCEPT !.sender = "done"]
  <2>1. n \in ClientType(c)
    BY <1>1 DEF ClientType
  <2>2. SendStep(c, s, n, up[c], up[c]) /\ ReceiveStep(s, n, down[c], down[c])
    BY <1>1, <1>2, <1>7 DEF ClientType, SenderEnds, SendStep, ReceiveStep
  <2> QED  BY <1>7, <2>1, <2>2, Quiet DEF SenderEnds
<1>8. CASE SenderFails(c)
  <2> DEFINE n == [s EXCEPT !.sendChan = Tail(@), !.sender = "done", !.connected = FALSE]
  <2>1. n \in ClientType(c)
    BY <1>1, <1>4, <1>8 DEF ClientType, SenderFails
  <2>2. SendStep(c, s, n, up[c], up[c]) /\ ReceiveStep(s, n, down[c], down[c])
    BY <1>1, <1>2, <1>8 DEF ClientType, SenderFails, SendStep, ReceiveStep
  <2> QED  BY <1>8, <2>1, <2>2, Quiet DEF SenderFails
<1>9. CASE SenderWrites(c)
  <2> DEFINE n == [s EXCEPT !.sendChan = Tail(@), !.written = Append(@, Head(s.sendChan))]
             v == Append(up[c], Head(s.sendChan))
  <2>0. s.sendChan # <<>> /\ s.connected /\ s.sender = "run" /\ Set(c, n) /\ up' = [up EXCEPT ![c] = v] /\ UNCHANGED down
    BY <1>9 DEF SenderWrites
  <2>1. Append(s.written, Head(s.sendChan)) \in Seq(Messages(c)) /\ v \in Seq(Messages(c))
    BY <1>1, <1>3, <1>4, <2>0, AppendProperties
  <2>2. n \in ClientType(c)
    BY <1>1, <1>4, <2>0, <2>1 DEF ClientType
  <2>3. SendStep(c, s, n, up[c], v) /\ ReceiveStep(s, n, down[c], down[c])
    BY <1>1, <1>2, <2>0 DEF ClientType, SendStep, ReceiveStep
  <2> HIDE DEF n, v
  <2>4. /\ up'[c] = v /\ \A d \in Clients \ {c} : up'[d] = up[d]
        /\ up' \in [Clients -> UNION {Seq(Messages(d)) : d \in Clients}]
    BY <2>0, <2>1 DEF TInv, ClientTypes
  <2> QED  BY <2>0, <2>1, <2>2, <2>3, <2>4 DEF Moves, TInv, ClientTypes
<1>10. CASE SendSelect(c)
  <2> DEFINE m == Script[c][s.next]
             a == [s EXCEPT !.sending = FALSE, !.next = @ + 1]
             b == [a EXCEPT !.sendChan = Append(@, m), !.sent = Append(@, m)]
             p == [a EXCEPT !.panic = TRUE]
  <2>1. s.sending /\ s.next <= Len(Script[c]) /\ s.next \in 1..Len(Script[c]) + 1
    BY <1>1, <1>2, <1>10 DEF SendSelect, ClientType
  <2>2. s.next \in 1..Len(Script[c]) /\ s.next + 1 \in 1..Len(Script[c]) + 1 /\ m \in Messages(c)
    BY <1>1, <2>1
  <2>3. Append(s.sendChan, m) \in Seq(Messages(c)) /\ Append(s.sent, m) \in Seq(Messages(c))
    BY <1>3, <2>2, AppendProperties
  <2> HIDE DEF m
  <2>4. a \in ClientType(c) /\ b \in ClientType(c) /\ p \in ClientType(c)
    BY <1>1, <2>2, <2>3 DEF ClientType
  <2>5. ReceiveStep(s, a, down[c], down[c]) /\ ReceiveStep(s, b, down[c], down[c]) /\ ReceiveStep(s, p, down[c], down[c])
    BY <1>1 DEF ClientType, ReceiveStep
  <2>6. SendStep(c, s, a, up[c], up[c]) /\ SendStep(c, s, p, up[c], up[c])
    BY <1>1, <1>2, <2>1 DEF ClientType, SendStep
  <2>7. Room(s.sendChan) => SendStep(c, s, b, up[c], up[c])
    BY <1>1, <1>2, <2>1, <2>2 DEF ClientType, SendStep, m
  <2>8. (Set(c, a) \/ Set(c, p) \/ (Room(s.sendChan) /\ Set(c, b))) /\ UNCHANGED <<up, down>>
    BY <1>10 DEF SendSelect, m
  <2> HIDE DEF a, b, p
  <2> QED  BY <2>4, <2>5, <2>6, <2>7, <2>8, Quiet
<1> QED  BY <1>5, <1>6, <1>7, <1>8, <1>9, <1>10

LEMMA ReceiverMoves ==
  ASSUME TInv, ChainInv, NEW c \in Clients, ReceiverEnds(c) \/ ReceiverDecodes(c) \/ ReceiverRoutes(c)
  PROVE  Moves(c)
<1>1. cli[c] \in ClientType(c) /\ down[c] \in Seq(Answer)
  BY ClientFacts
<1> DEFINE s == cli[c]
<1>2. /\ s.connected => ~s.cancelled
      /\ s.sender = "off" => s.sendChan = <<>> /\ ~s.connected /\ ~s.cancelled /\ ~s.sending
      /\ s.sending => s.next <= Len(Script[c])
  BY DEF ChainInv, Unbroken, TInv, ClientTypes
<1>3. s.receiveChan \in Seq(Answer) /\ s.inHand \in Seq(Answer) /\ s.got \in Seq(Answer)
  BY <1>1 DEF ClientType
<1>4. CASE ReceiverEnds(c)
  <2> DEFINE a == [s EXCEPT !.receiver = "done"]
             b == [s EXCEPT !.receiver = "done", !.receiveChan = Tail(@)]
             f == [s EXCEPT !.receiver = "done", !.connected = FALSE]
  <2>1. (Set(c, a) \/ (s.receiveChan # <<>> /\ Set(c, b)) \/ Set(c, f)) /\ UNCHANGED <<up, down>>
    BY <1>4 DEF ReceiverEnds
  <2>2. s.receiveChan # <<>> => Tail(s.receiveChan) \in Seq(Answer)
    BY <1>3, HeadTailProperties
  <2>3. a \in ClientType(c) /\ (s.receiveChan # <<>> => b \in ClientType(c)) /\ f \in ClientType(c)
    BY <1>1, <2>2 DEF ClientType
  <2>4. SendStep(c, s, a, up[c], up[c]) /\ SendStep(c, s, b, up[c], up[c]) /\ SendStep(c, s, f, up[c], up[c])
    BY <1>1, <1>2 DEF ClientType, SendStep
  <2>5. /\ ReceiveStep(s, a, down[c], down[c]) /\ ReceiveStep(s, f, down[c], down[c])
        /\ s.receiveChan # <<>> => ReceiveStep(s, b, down[c], down[c])
    BY <1>1 DEF ClientType, ReceiveStep
  <2> HIDE DEF a, b, f
  <2> QED  BY <2>1, <2>3, <2>4, <2>5, Quiet
<1>5. CASE ReceiverRoutes(c)
  <2> DEFINE a == [s EXCEPT !.inHand = <<>>]
             g == [a EXCEPT !.got = @ \o s.inHand]
             r == [a EXCEPT !.receiveChan = @ \o s.inHand]
             p == [a EXCEPT !.panic = TRUE]
  <2>1. s.inHand # <<>> /\ (Set(c, a) \/ Set(c, g) \/ Set(c, r) \/ Set(c, p)) /\ UNCHANGED <<up, down>>
    BY <1>5 DEF ReceiverRoutes
  <2>2. s.got \o s.inHand \in Seq(Answer) /\ s.receiveChan \o s.inHand \in Seq(Answer) /\ <<>> \in Seq(Answer)
    BY <1>3, ConcatProperties
  <2>3. a \in ClientType(c) /\ g \in ClientType(c) /\ r \in ClientType(c) /\ p \in ClientType(c)
    BY <1>1, <2>2 DEF ClientType
  <2>4. /\ SendStep(c, s, a, up[c], up[c]) /\ SendStep(c, s, g, up[c], up[c])
        /\ SendStep(c, s, r, up[c], up[c]) /\ SendStep(c, s, p, up[c], up[c])
    BY <1>1, <1>2 DEF ClientType, SendStep
  <2>5. /\ ReceiveStep(s, a, down[c], down[c]) /\ ReceiveStep(s, g, down[c], down[c])
        /\ ReceiveStep(s, r, down[c], down[c]) /\ ReceiveStep(s, p, down[c], down[c])
    BY <1>1, <2>1 DEF ClientType, ReceiveStep
  <2> HIDE DEF a, g, r, p
  <2> QED  BY <2>1, <2>3, <2>4, <2>5, Quiet
<1>6. CASE ReceiverDecodes(c)
  <2> DEFINE n == [s EXCEPT !.inHand = <<Head(down[c])>>]
             e == Tail(down[c])
  <2>0. /\ s.inHand = <<>> /\ s.receiveChan = <<>> /\ down[c] # <<>> /\ Set(c, n)
        /\ down' = [down EXCEPT ![c] = e] /\ UNCHANGED up
    BY <1>6 DEF ReceiverDecodes
  <2>1. <<Head(down[c])>> \in Seq(Answer) /\ e \in Seq(Answer)
    BY <1>1, <2>0, HeadTailProperties
  <2>2. n \in ClientType(c)
    BY <1>1, <2>1 DEF ClientType
  <2>3. SendStep(c, s, n, up[c], up[c])
    BY <1>1, <1>2 DEF ClientType, SendStep
  <2>4. ReceiveStep(s, n, down[c], e)
    BY <1>1, <2>0 DEF ClientType, ReceiveStep
  <2> HIDE DEF n, e
  <2>5. /\ down'[c] = e /\ \A d \in Clients \ {c} : down'[d] = down[d]
        /\ down' \in [Clients -> Seq(Answer)]
    BY <2>0, <2>1 DEF TInv, ClientTypes
  <2> QED  BY <2>0, <2>2, <2>3, <2>4, <2>5 DEF Moves, TInv, ClientTypes
<1> QED  BY <1>4, <1>5, <1>6

LEMMA MainMoves ==
  ASSUME TInv, ChainInv, NEW c \in Clients,
         Connect(c, stopPc = "none") \/ RegisterHandler(c) \/ Disconnect(c) \/ DisconnectDrains(c)
  PROVE  Moves(c)
<1>1. cli[c] \in ClientType(c)
  BY ClientFacts
<1> DEFINE s == cli[c]
<1>2. /\ s.connected => ~s.cancelled
      /\ s.sender = "off" => s.sendChan = <<>> /\ ~s.connected /\ ~s.cancelled /\ ~s.sending
      /\ s.sending => s.next <= Len(Script[c])
  BY DEF ChainInv, Unbroken, TInv, ClientTypes
<1>3. CASE Connect(c, stopPc = "none")
  <2> DEFINE n == [s EXCEPT !.connected = TRUE, !.sender = "run", !.receiver = "run"]
  <2>1. n \in ClientType(c)
    BY <1>1 DEF ClientType
  <2>2. SendStep(c, s, n, up[c], up[c]) /\ ReceiveStep(s, n, down[c], down[c])
    BY <1>1, <1>2, <1>3 DEF ClientType, Connect, SendStep, ReceiveStep
  <2> QED  BY <1>3, <2>1, <2>2, Quiet DEF Connect
<1>4. CASE RegisterHandler(c)
  <2> DEFINE n == [s EXCEPT !.handles = TRUE]
  <2>1. n \in ClientType(c)
    BY <1>1 DEF ClientType
  <2>2. SendStep(c, s, n, up[c], up[c]) /\ ReceiveStep(s, n, down[c], down[c])
    BY <1>1, <1>2 DEF ClientType, SendStep, ReceiveStep
  <2> QED  BY <1>4, <2>1, <2>2, Quiet DEF RegisterHandler
<1>5. CASE Disconnect(c)
  <2> DEFINE n == [s EXCEPT !.cancelled = TRUE, !.connected = FALSE]
  <2>1. n \in ClientType(c)
    BY <1>1 DEF ClientType
  <2>2. SendStep(c, s, n, up[c], up[c]) /\ ReceiveStep(s, n, down[c], down[c])
    BY <1>1, <1>2, <1>5 DEF ClientType, Disconnect, SendStep, ReceiveStep
  <2> QED  BY <1>5, <2>1, <2>2, Quiet DEF Disconnect
<1>6. CASE DisconnectDrains(c)
  <2> DEFINE r == IF s.receiveChan = <<>> THEN s.receiveChan ELSE Tail(s.receiveChan)
             q == IF s.sendChan = <<>> THEN s.sendChan ELSE Tail(s.sendChan)
             x == (s.receiveChan = <<>>)
             y == (s.sendChan = <<>>)
             n == [s EXCEPT !.drained = TRUE, !.receiveChan = r, !.receiveClosed = x, !.sendChan = q, !.sendClosed = y]
  <2>1. r \in Seq(Answer) /\ q \in Seq(Messages(c))
    <3>1. s.receiveChan \in Seq(Answer) /\ s.sendChan \in Seq(Messages(c))
      BY <1>1 DEF ClientType
    <3> QED  BY <3>1, HeadTailProperties
  <2>2. x \in BOOLEAN /\ y \in BOOLEAN
    OBVIOUS
  <2>3. s.cancelled /\ Set(c, n) /\ UNCHANGED <<up, down>>
    BY <1>6 DEF DisconnectDrains
  <2>4. /\ r = s.receiveChan \/ (s.receiveChan # <<>> /\ r = Tail(s.receiveChan))
        /\ q = s.sendChan \/ (s.sendChan # <<>> /\ q = Tail(s.sendChan))
    OBVIOUS
  <2> HIDE DEF r, q, x, y
  <2>5. n \in ClientType(c)
    BY <1>1, <2>1, <2>2 DEF ClientType
  <2>6. SendStep(c, s, n, up[c], up[c])
    BY <1>1, <1>2, <2>3, <2>4 DEF ClientType, SendStep
  <2>7. ReceiveStep(s, n, down[c], down[c])
    BY <1>1, <2>4 DEF ClientType, ReceiveStep
  <2> QED  BY <2>3, <2>5, <2>6, <2>7, Quiet
<1> QED  BY <1>3, <1>4, <1>5, <1>6

\* Every step of a client is one of the above.
LEMMA ClientMoves ==
  ASSUME TInv, ChainInv, NEW c \in Clients, Connect(c, stopPc = "none") \/ ClientStep(c)
  PROVE  Moves(c)
  BY SenderMoves, ReceiverMoves, MainMoves DEF ClientStep

-----------------------------------------------------------------------------
(* What such a step keeps *)

\* The sender never writes past a message it dropped, and the channel has its places.
LEMMA SendKeepsChain ==
  ASSUME NEW c \in Clients, NEW s \in ClientType(c), NEW n \in ClientType(c), NEW u, NEW v,
         Unbroken(s), SendStep(c, s, n, u, v), Len(s.sendChan) <= BufferSize
  PROVE  Unbroken(n) /\ Len(n.sendChan) <= BufferSize
<1> DEFINE M == Messages(c)
<1>1. /\ s.sendChan \in Seq(M) /\ s.sent \in Seq(M) /\ s.written \in Seq(M)
      /\ n.sendChan \in Seq(M) /\ n.sent \in Seq(M) /\ n.written \in Seq(M)
  BY DEF ClientType
<1>2. BufferSize \in Nat /\ Len(s.sendChan) \in Nat
  BY <1>1, IPCAssumption, LenProperties
<1>3. /\ n.connected => ~n.cancelled
      /\ n.sender = "off" => s.sender = "off" /\ ~n.connected /\ ~n.cancelled /\ ~n.sending
  BY DEF SendStep
<1>4. CASE /\ n.sendChan = s.sendChan /\ n.sent = s.sent /\ n.written = s.written
           /\ n.connected /\ n.sender = "run" => s.sender = "off" \/ (s.connected /\ s.sender = "run")
  <2>1. <<>> \o <<>> = <<>>
    BY EmptySeq, ConcatEmptySeq
  <2> QED  BY <1>3, <1>4, <2>1 DEF Unbroken
<1>5. CASE /\ Room(s.sendChan) /\ s.next \in 1..Len(Script[c]) /\ n.sender # "off"
           /\ n.sendChan = Append(s.sendChan, Script[c][s.next]) /\ n.sent = Append(s.sent, Script[c][s.next])
           /\ n.written = s.written /\ n.connected = s.connected /\ n.sender = s.sender
  <2> DEFINE m == Script[c][s.next]
  <2>1. m \in M
    <3>1. DOMAIN Script[c] = 1..Len(Script[c])
      BY IPCAssumption, LenProperties
    <3> QED  BY <1>5, <3>1 DEF Messages
  <2> HIDE DEF m, M
  <2>2. n.sendChan = Append(s.sendChan, m) /\ n.sent = Append(s.sent, m)
    BY <1>5 DEF m
  <2>3. Len(n.sendChan) <= BufferSize
    <3>1. Len(n.sendChan) = Len(s.sendChan) + 1 /\ Len(s.sendChan) < BufferSize
      BY <1>1, <1>5, <2>1, <2>2, AppendProperties DEF Room
    <3> QED  BY <1>2, <3>1
  <2>4. Begins(n.written, n.sent)
    BY <1>1, <1>5, <2>1, <2>2, BeginsAppend DEF Unbroken
  <2>5. n.connected /\ n.sender = "run" => n.sent = n.written \o n.sendChan
    <3> SUFFICES ASSUME n.connected, n.sender = "run" PROVE n.sent = n.written \o n.sendChan
      OBVIOUS
    <3>1. s.sent = s.written \o s.sendChan
      BY <1>5 DEF Unbroken
    <3>2. s.written \o Append(s.sendChan, m) = Append(s.written \o s.sendChan, m)
      <4> DEFINE w == s.written
                 q == s.sendChan
      <4>1. w \in Seq(M) /\ q \in Seq(M)
        BY <1>1
      <4> HIDE DEF w, q
      <4>2. w \o Append(q, m) = Append(w \o q, m)
        BY <2>1, <4>1, ConcatAppend
      <4> QED  BY <4>2 DEF w, q
    <3> QED  BY <1>5, <2>2, <3>1, <3>2
  <2> QED  BY <1>3, <1>5, <2>3, <2>4, <2>5 DEF Unbroken
<1>6. CASE /\ s.sendChan # <<>> /\ ~(n.connected /\ n.sender = "run") /\ n.sender # "off"
           /\ n.sendChan = Tail(s.sendChan) /\ n.sent = s.sent /\ n.written = s.written
  <2>1. Len(n.sendChan) <= BufferSize
    <3>1. Len(n.sendChan) = Len(s.sendChan) - 1
      BY <1>1, <1>6, HeadTailProperties
    <3> QED  BY <1>2, <3>1
  <2> QED  BY <1>3, <1>6, <2>1 DEF Unbroken
<1>7. CASE /\ s.sendChan # <<>> /\ s.connected /\ s.sender = "run" /\ n.sender # "off"
           /\ n.sendChan = Tail(s.sendChan) /\ n.written = Append(s.written, Head(s.sendChan)) /\ n.sent = s.sent
  <2>1. Len(n.sendChan) <= BufferSize
    <3>1. Len(n.sendChan) = Len(s.sendChan) - 1
      BY <1>1, <1>7, HeadTailProperties
    <3> QED  BY <1>2, <3>1
  <2>2. n.sent = n.written \o n.sendChan
    <3>1. s.sent = s.written \o s.sendChan
      BY <1>7 DEF Unbroken
    <3>2. Append(s.written, Head(s.sendChan)) \o Tail(s.sendChan) = s.written \o s.sendChan
      BY <1>1, <1>7, ConcatMove
    <3> QED  BY <1>7, <3>1, <3>2
  <2>3. Begins(n.written, n.sent)
    <3>1. Begins(n.written, n.written \o n.sendChan)
      BY <1>1, BeginsConcat
    <3> QED  BY <2>2, <3>1
  <2> QED  BY <1>3, <1>7, <2>1, <2>2, <2>3 DEF Unbroken
<1> QED  BY <1>4, <1>5, <1>6, <1>7 DEF SendStep

\* A message moves on, and nowhere else.
LEMMA SendKeepsOnce ==
  ASSUME NEW c \in Clients, NEW s \in ClientType(c), NEW n \in ClientType(c),
         NEW u \in Seq(Messages(c)), NEW v, SendStep(c, s, n, u, v), Once(c, s, u)
  PROVE  Once(c, n, v) /\ OnTheWay(c, n, v) \subseteq OnTheWay(c, s, u)
<1> DEFINE M == Messages(c)
           L == Len(Script[c])
<1>1. /\ s.sendChan \in Seq(M) /\ n.sendChan \in Seq(M) /\ s.next \in 1..L + 1 /\ n.next \in 1..L + 1
      /\ L \in Nat /\ DOMAIN Script[c] = 1..L
  BY IPCAssumption, LenProperties DEF ClientType
<1>2. /\ Distinct(u) /\ Distinct(s.sendChan)
      /\ Range(u) \cap Range(s.sendChan) = {}
      /\ (Range(u) \cup Range(s.sendChan)) \cap Unsent(c, s) = {}
  BY DEF Once
<1>3. n.next \in {s.next, s.next + 1}
  BY DEF SendStep
<1>4. Unsent(c, n) \subseteq Unsent(c, s) /\ (n.next = s.next => Unsent(c, n) = Unsent(c, s))
  <2>1. \A i \in n.next..L : i \in s.next..L
    BY <1>1, <1>3
  <2> QED  BY <2>1 DEF Unsent
<1>5. CASE n.sendChan = s.sendChan /\ v = u
  BY <1>2, <1>4, <1>5 DEF Once, OnTheWay
<1>6. CASE /\ s.next \in 1..L /\ n.next = s.next + 1 /\ v = u
           /\ n.sendChan = Append(s.sendChan, Script[c][s.next])
  <2> DEFINE m == Script[c][s.next]
  <2>1. m \in M /\ m \in Unsent(c, s)
    <3>1. s.next \in s.next..L
      BY <1>1, <1>6
    <3> QED  BY <1>1, <1>6, <3>1 DEF Messages, Unsent
  <2>2. m \notin Unsent(c, n)
    <3> SUFFICES ASSUME NEW i \in n.next..L, Script[c][i] = m PROVE FALSE
      BY DEF Unsent
    <3>1. i \in 1..L /\ i # s.next
      BY <1>1, <1>6
    <3> QED  BY <1>1, <1>6, <3>1, IdsUnique
  <2> HIDE DEF m, M
  <2>3. n.sendChan = Append(s.sendChan, m)
    BY <1>6 DEF m
  <2>4. Distinct(n.sendChan) /\ Range(n.sendChan) = Range(s.sendChan) \cup {m}
    BY <1>1, <1>2, <2>1, <2>3, AppendDistinct
  <2> QED  BY <1>2, <1>4, <1>6, <2>1, <2>2, <2>4 DEF Once, OnTheWay
<1>7. CASE s.sendChan # <<>> /\ n.sendChan = Tail(s.sendChan) /\ n.next = s.next /\ v = u
  <2>1. Distinct(n.sendChan) /\ Range(n.sendChan) = Range(s.sendChan) \ {Head(s.sendChan)}
    BY <1>1, <1>2, <1>7, TailDistinct
  <2> QED  BY <1>2, <1>4, <1>7, <2>1 DEF Once, OnTheWay
<1>8. CASE /\ s.sendChan # <<>> /\ n.sendChan = Tail(s.sendChan) /\ n.next = s.next
           /\ v = Append(u, Head(s.sendChan))
  <2> DEFINE m == Head(s.sendChan)
  <2>1. /\ Distinct(n.sendChan) /\ Range(n.sendChan) = Range(s.sendChan) \ {m}
        /\ m \in M /\ m \in Range(s.sendChan)
    BY <1>1, <1>2, <1>8, TailDistinct
  <2> HIDE DEF m, M
  <2>2. Distinct(v) /\ Range(v) = Range(u) \cup {m}
    BY <1>2, <1>8, <2>1, AppendDistinct DEF m, M
  <2> QED  BY <1>2, <1>4, <1>8, <2>1, <2>2 DEF Once, OnTheWay
<1> QED  BY <1>5, <1>6, <1>7, <1>8 DEF SendStep

\* The receive channel has at most the one answer, and no answer comes from nowhere.
LEMMA ReceiveKeeps ==
  ASSUME NEW c \in Clients, NEW s \in ClientType(c), NEW n \in ClientType(c),
         NEW d \in Seq(Answer), NEW e, ReceiveStep(s, n, d, e),
         Len(s.receiveChan) <= 1, Len(s.inHand) <= 1, s.inHand # <<>> => s.receiveChan = <<>>
  PROVE  /\ Len(n.receiveChan) <= 1 /\ Len(n.inHand) <= 1 /\ (n.inHand # <<>> => n.receiveChan = <<>>)
         /\ Has(n) \cup Range(e) \subseteq Has(s) \cup Range(d)
<1>1. s.receiveChan \in Seq(Answer) /\ s.inHand \in Seq(Answer) /\ s.got \in Seq(Answer)
  BY DEF ClientType
<1>2. Len(s.receiveChan) \in Nat /\ Len(s.inHand) \in Nat /\ Range(<<>>) = {} /\ Len(<<>>) = 0
  BY <1>1, LenProperties DEF Range
<1>3. CASE n.got = s.got /\ n.receiveChan = s.receiveChan /\ n.inHand = s.inHand /\ e = d
  BY <1>3 DEF Has
<1>4. CASE /\ s.receiveChan # <<>> /\ n.receiveChan = Tail(s.receiveChan)
           /\ n.got = s.got /\ n.inHand = s.inHand /\ e = d
  <2>1. Len(n.receiveChan) = Len(s.receiveChan) - 1 /\ Range(n.receiveChan) \subseteq Range(s.receiveChan)
    BY <1>1, <1>4, TailRange
  <2>2. Len(n.receiveChan) <= 1
    BY <1>2, <2>1
  <2> QED  BY <1>4, <2>1, <2>2 DEF Has
<1>5. CASE /\ s.inHand = <<>> /\ s.receiveChan = <<>> /\ d # <<>>
           /\ n.inHand = <<Head(d)>> /\ e = Tail(d) /\ n.got = s.got /\ n.receiveChan = s.receiveChan
  <2>1. Head(d) \in Range(d) /\ Range(e) \subseteq Range(d)
    BY <1>5, TailRange
  <2>2. Len(n.inHand) = 1 /\ Range(n.inHand) = {Head(d)}
    BY <1>5 DEF Range
  <2> QED  BY <1>2, <1>5, <2>1, <2>2 DEF Has
<1>6. CASE /\ s.inHand # <<>> /\ n.inHand = <<>> /\ e = d
           /\ \/ n.got = s.got \o s.inHand /\ n.receiveChan = s.receiveChan
              \/ n.got = s.got /\ n.receiveChan = s.receiveChan \o s.inHand
              \/ n.got = s.got /\ n.receiveChan = s.receiveChan
  <2>1. s.receiveChan \o s.inHand = s.inHand
    BY <1>1, <1>6, ConcatEmptySeq
  <2>2. Range(s.got \o s.inHand) = Range(s.got) \cup Range(s.inHand)
    BY <1>1, ConcatRange
  <2> QED  BY <1>2, <1>6, <2>1, <2>2 DEF Has
<1> QED  BY <1>3, <1>4, <1>5, <1>6 DEF ReceiveStep

-----------------------------------------------------------------------------
(* Types and chains *)

\* A step of a client keeps the types of the clients and their chains.
LEMMA ClientTypesKept ==
  ASSUME TInv, ChainInv, NEW c \in Clients, Moves(c)
  PROVE  ClientTypes' /\ ChainInv'
<1>1. PICK n \in ClientType(c) :
        Set(c, n) /\ SendStep(c, cli[c], n, up[c], up'[c]) /\ ReceiveStep(cli[c], n, down[c], down'[c])
  BY DEF Moves
<1>2. /\ cli'[c] = n /\ \A d \in Clients \ {c} : cli'[d] = cli[d]
      /\ cli' \in [Clients -> UNION {ClientType(d) : d \in Clients}]
  BY <1>1, SetClient
<1>3. cli[c] \in ClientType(c) /\ up[c] \in Seq(Messages(c)) /\ down[c] \in Seq(Answer)
  BY ClientFacts
<1>4. Unbroken(n) /\ Len(n.sendChan) <= BufferSize
  BY <1>1, <1>3, SendKeepsChain DEF ChainInv, TInv, ClientTypes
<1>5. Len(n.receiveChan) <= 1 /\ Len(n.inHand) <= 1 /\ (n.inHand # <<>> => n.receiveChan = <<>>)
  BY <1>1, <1>3, ReceiveKeeps DEF TInv, ClientTypes
<1>6. n.sending => n.next <= Len(Script[c])
  BY <1>1 DEF SendStep
<1>7. ChainInv'
  BY <1>2, <1>4 DEF ChainInv
<1>8. /\ up' \in [Clients -> UNION {Seq(Messages(d)) : d \in Clients}] /\ up'[c] \in Seq(Messages(c))
      /\ down' \in [Clients -> Seq(Answer)]
      /\ \A d \in Clients \ {c} : up'[d] = up[d] /\ down'[d] = down[d]
  BY DEF Moves
<1>9. ASSUME NEW d \in Clients
      PROVE  /\ cli'[d] \in ClientType(d) /\ up'[d] \in Seq(Messages(d))
             /\ Len(cli'[d].sendChan) <= BufferSize /\ Len(cli'[d].receiveChan) <= 1 /\ Len(cli'[d].inHand) <= 1
             /\ cli'[d].inHand # <<>> => cli'[d].receiveChan = <<>>
             /\ cli'[d].sending => cli'[d].next <= Len(Script[d])
  <2>1. CASE d = c
    BY <1>2, <1>4, <1>5, <1>6, <1>8, <2>1
  <2>2. CASE d # c
    BY <1>2, <1>8, <2>2 DEF TInv, ClientTypes
  <2> QED  BY <2>1, <2>2
<1> QED  BY <1>2, <1>7, <1>8, <1>9 DEF ClientTypes

\* A step of the server may take a message off a wire or put an answer on one.
LEMMA WireTypesKept ==
  ASSUME TInv, NEW c \in Clients, UNCHANGED cli,
         UNCHANGED up \/ (up[c] # <<>> /\ up' = [up EXCEPT ![c] = Tail(@)]),
         UNCHANGED down \/ \E r \in Answer : down' = [down EXCEPT ![c] = Append(@, r)]
  PROVE  ClientTypes'
<1>1. up[c] \in Seq(Messages(c)) /\ down[c] \in Seq(Answer)
  BY ClientFacts
<1>2. up[c] # <<>> => Tail(up[c]) \in Seq(Messages(c))
  BY <1>1, HeadTailProperties
<1>3. up' \in [Clients -> UNION {Seq(Messages(d)) : d \in Clients}] /\ \A d \in Clients : up'[d] \in Seq(Messages(d))
  BY <1>2 DEF TInv, ClientTypes
<1>4. down' \in [Clients -> Seq(Answer)]
  <2>1. \A r \in Answer : Append(down[c], r) \in Seq(Answer)
    BY <1>1, AppendProperties
  <2> HIDE DEF Answer
  <2> QED  BY <2>1 DEF TInv, ClientTypes
<1> QED  BY <1>3, <1>4 DEF TInv, ClientTypes

\* safeCloseClient leaves a closed client, with no more in its channel than before.
LEMMA SafelyClosedFacts ==
  ASSUME NEW s \in ConnType, Len(s.send) <= BufferSize
  PROVE  /\ SafelyClosed(s) \in ConnType /\ Len(SafelyClosed(s).send) <= BufferSize
         /\ Range(SafelyClosed(s).send) \subseteq Range(s.send)
         /\ SafelyClosed(s).closed /\ SafelyClosed(s).handler = s.handler /\ SafelyClosed(s).sender = s.sender
<1>1. s.send \in Seq(Answer) /\ BufferSize \in Nat
  BY IPCAssumption DEF ConnType
<1>2. CASE s.closed
  BY <1>2 DEF SafelyClosed
<1>3. CASE ~s.closed
  <2> DEFINE q == IF s.send = <<>> THEN s.send ELSE Tail(s.send)
             x == (s.send = <<>>)
             n == [s EXCEPT !.closed = TRUE, !.active = FALSE, !.send = q, !.sendClosed = x]
  <2>1. SafelyClosed(s) = n
    BY <1>3 DEF SafelyClosed
  <2>2. q \in Seq(Answer) /\ Len(q) <= BufferSize /\ Range(q) \subseteq Range(s.send)
    <3>1. CASE s.send = <<>>
      BY <1>1, <3>1
    <3>2. CASE s.send # <<>>
      <4>1. /\ Tail(s.send) \in Seq(Answer) /\ Len(s.send) \in Nat \ {0} /\ Len(Tail(s.send)) = Len(s.send) - 1
            /\ Range(Tail(s.send)) \subseteq Range(s.send)
        BY <1>1, <3>2, TailRange
      <4>2. Len(Tail(s.send)) <= BufferSize
        BY <1>1, <4>1
      <4> QED  BY <3>2, <4>1, <4>2
    <3> QED  BY <3>1, <3>2
  <2>3. x \in BOOLEAN
    OBVIOUS
  <2> HIDE DEF q, x
  <2>4. n \in ConnType /\ n.send = q /\ n.closed /\ n.handler = s.handler /\ n.sender = s.sender
    BY <2>2, <2>3 DEF ConnType
  <2> HIDE DEF n
  <2> QED  BY <2>1, <2>2, <2>4
<1> QED  BY <1>2, <1>3

\* What most steps do to the server's record of a client: it stays accepted or not, closed if
\* it was, and its channel gets nothing.
Settles(s, n) ==
    /\ n \in ConnType /\ Len(n.send) <= BufferSize /\ Range(n.send) \subseteq Range(s.send)
    /\ (n.handler = "off" <=> s.handler = "off") /\ (n.handler = "done" <=> s.handler = "done") /\ (s.closed => n.closed)
AllSettle == srv' \in [Clients -> ConnType] /\ \A c \in Clients : Settles(srv[c], srv'[c])

LEMMA SettlesSame ==
  ASSUME TInv, UNCHANGED srv
  PROVE  AllSettle
  BY DEF TInv, ServerTypes, AllSettle, Settles

LEMMA SettlesOne ==
  ASSUME TInv, NEW c \in Clients, NEW n, Settles(srv[c], n), srv' = [srv EXCEPT ![c] = n]
  PROVE  AllSettle /\ srv'[c] = n /\ \A d \in Clients \ {c} : srv'[d] = srv[d]
<1>1. srv \in [Clients -> ConnType] /\ \A d \in Clients : Settles(srv[d], srv[d])
  BY DEF TInv, ServerTypes, Settles
<1>2. srv' \in [Clients -> ConnType] /\ srv'[c] = n /\ \A d \in Clients \ {c} : srv'[d] = srv[d]
  BY <1>1 DEF Settles
<1> QED  BY <1>1, <1>2 DEF AllSettle

\* The record of a client, and its channel after a receive.
LEMMA ConnFacts ==
  ASSUME TInv, NEW c \in Clients
  PROVE  /\ srv[c] \in ConnType /\ Len(srv[c].send) <= BufferSize /\ srv[c].send \in Seq(Answer) /\ BufferSize \in Nat
         /\ srv[c].send # <<>> => /\ Tail(srv[c].send) \in Seq(Answer) /\ Len(Tail(srv[c].send)) <= BufferSize
                                  /\ Range(Tail(srv[c].send)) \subseteq Range(srv[c].send)
                                  /\ Head(srv[c].send) \in Answer /\ Head(srv[c].send) \in Range(srv[c].send)
<1>1. srv[c] \in ConnType /\ Len(srv[c].send) <= BufferSize /\ BufferSize \in Nat
  BY IPCAssumption DEF TInv, ServerTypes
<1>2. srv[c].send \in Seq(Answer)
  BY <1>1 DEF ConnType
<1>3. ASSUME srv[c].send # <<>>
      PROVE  /\ Tail(srv[c].send) \in Seq(Answer) /\ Len(Tail(srv[c].send)) <= BufferSize
             /\ Range(Tail(srv[c].send)) \subseteq Range(srv[c].send)
             /\ Head(srv[c].send) \in Answer /\ Head(srv[c].send) \in Range(srv[c].send)
  <2> DEFINE q == srv[c].send
  <2>1. /\ Tail(q) \in Seq(Answer) /\ Len(q) \in Nat \ {0} /\ Len(Tail(q)) = Len(q) - 1 /\ Head(q) \in Answer
        /\ Head(q) \in Range(q) /\ Range(Tail(q)) \subseteq Range(q)
    <3>1. q \in Seq(Answer) /\ q # <<>>
      BY <1>2, <1>3
    <3> HIDE DEF q
    <3> QED  BY <3>1, TailRange
  <2>2. Len(Tail(q)) <= BufferSize
    BY <1>1, <2>1
  <2> QED  BY <2>1, <2>2
<1> QED  BY <1>1, <1>2, <1>3

LEMMA HandlerSettles ==
  ASSUME TInv, NEW c \in Clients, HandlerSelect(c) \/ HandlerDecodes(c)
  PROVE  AllSettle
<1> DEFINE s == srv[c]
           a == [s EXCEPT !.handler = "decode"]
           b == [s EXCEPT !.handler = "select"]
<1>1. s \in ConnType /\ Len(s.send) <= BufferSize
  BY ConnFacts
<1>2. s.handler \in {"select", "decode"} /\ (srv' = [srv EXCEPT ![c] = a] \/ srv' = [srv EXCEPT ![c] = b])
  BY DEF HandlerSelect, HandlerDecodes
<1>3. Settles(s, a) /\ Settles(s, b)
  BY <1>1, <1>2 DEF ConnType, Settles
<1> HIDE DEF a, b
<1> QED  BY <1>2, <1>3, SettlesOne

\* The sender takes from the channel, or ends.
LEMMA ServerSenderSettles ==
  ASSUME TInv, NEW c \in Clients, ServerSends(c) \/ ServerSendFails(c) \/ ServerSenderEnds(c)
  PROVE  /\ AllSettle
         /\ ServerSends(c) => Head(srv[c].send) \in Answer /\ Head(srv[c].send) \in Range(srv[c].send)
<1> DEFINE s == srv[c]
           q == Tail(s.send)
           a == [s EXCEPT !.send = q]
           b == [s EXCEPT !.send = q, !.sender = "done"]
           e == [s EXCEPT !.sender = "done"]
<1>1. /\ s \in ConnType /\ Len(s.send) <= BufferSize
      /\ s.send # <<>> => /\ q \in Seq(Answer) /\ Len(q) <= BufferSize /\ Range(q) \subseteq Range(s.send)
                          /\ Head(s.send) \in Answer /\ Head(s.send) \in Range(s.send)
  BY ConnFacts
<1>2. (s.send # <<>> /\ srv' = [srv EXCEPT ![c] = a]) \/ (s.send # <<>> /\ srv' = [srv EXCEPT ![c] = b]) \/ srv' = [srv EXCEPT ![c] = e]
  BY DEF ServerSends, ServerSendFails, ServerSenderEnds
<1> HIDE DEF q
<1>3. Settles(s, e) /\ (s.send # <<>> => Settles(s, a) /\ Settles(s, b))
  BY <1>1 DEF ConnType, Settles
<1> HIDE DEF a, b, e
<1>4. AllSettle
  BY <1>2, <1>3, SettlesOne
<1> QED  BY <1>1, <1>4 DEF ServerSends

LEMMA SweepSettles ==
  ASSUME TInv, StopSweeps
  PROVE  AllSettle
<1>1. srv' = [c \in Clients |-> IF srv[c].inTable THEN [SafelyClosed(srv[c]) EXCEPT !.inTable = FALSE] ELSE srv[c]]
  BY DEF StopSweeps
<1>2. ASSUME NEW c \in Clients PROVE Settles(srv[c], srv'[c])
  <2> DEFINE s == srv[c]
             k == SafelyClosed(s)
             n == [k EXCEPT !.inTable = FALSE]
  <2>1. s \in ConnType /\ Len(s.send) <= BufferSize
    BY ConnFacts
  <2>2. /\ k \in ConnType /\ Len(k.send) <= BufferSize /\ Range(k.send) \subseteq Range(s.send)
        /\ k.closed /\ k.handler = s.handler
    BY <2>1, SafelyClosedFacts
  <2>3. srv'[c] = n \/ srv'[c] = s
    BY <1>1
  <2> HIDE DEF k
  <2>4. Settles(s, n) /\ Settles(s, s)
    BY <2>1, <2>2 DEF ConnType, Settles
  <2> QED  BY <2>3, <2>4
<1>3. srv' \in [Clients -> ConnType]
  BY <1>1, <1>2 DEF Settles
<1> QED  BY <1>2, <1>3 DEF AllSettle

\* The three steps that do more: a client is accepted, closed for good, or answered.
LEMMA AcceptEffect ==
  ASSUME TInv, NEW c \in Clients, AcceptRegisters(c)
  PROVE  /\ srv' \in [Clients -> ConnType] /\ \A d \in Clients : Len(srv'[d].send) <= BufferSize
         /\ srv'[c].handler = "select" /\ srv'[c].send = srv[c].send /\ \A d \in Clients \ {c} : srv'[d] = srv[d]
<1> DEFINE s == srv[c]
           n == [s EXCEPT !.inTable = TRUE, !.handler = "select", !.sender = "run"]
<1>1. s \in ConnType /\ Len(s.send) <= BufferSize
  BY ConnFacts
<1>2. srv' = [srv EXCEPT ![c] = n]
  BY DEF AcceptRegisters
<1>3. n \in ConnType /\ n.handler = "select" /\ n.send = s.send
  BY <1>1 DEF ConnType
<1> HIDE DEF n
<1>4. srv' \in [Clients -> ConnType] /\ srv'[c] = n /\ \A d \in Clients \ {c} : srv'[d] = srv[d]
  BY <1>2, <1>3 DEF TInv, ServerTypes
<1> QED  BY <1>1, <1>3, <1>4 DEF TInv, ServerTypes

LEMMA HandlerEndsEffect ==
  ASSUME TInv, NEW c \in Clients, HandlerEnds(c)
  PROVE  /\ srv' \in [Clients -> ConnType] /\ \A d \in Clients : Len(srv'[d].send) <= BufferSize
         /\ srv'[c].handler = "done" /\ srv'[c].closed /\ Range(srv'[c].send) \subseteq Range(srv[c].send)
         /\ \A d \in Clients \ {c} : srv'[d] = srv[d]
<1> DEFINE s == srv[c]
           t == [s EXCEPT !.handler = "done"]
           n == SafelyClosed(t)
<1>1. s \in ConnType /\ Len(s.send) <= BufferSize
  BY ConnFacts
<1>2. t \in ConnType /\ t.send = s.send /\ t.handler = "done"
  BY <1>1 DEF ConnType
<1>3. srv' = [srv EXCEPT ![c] = n]
  BY DEF HandlerEnds
<1> HIDE DEF t
<1>4. n \in ConnType /\ Len(n.send) <= BufferSize /\ Range(n.send) \subseteq Range(s.send) /\ n.closed /\ n.handler = "done"
  BY <1>1, <1>2, SafelyClosedFacts
<1> HIDE DEF n
<1>5. srv' \in [Clients -> ConnType] /\ srv'[c] = n /\ \A d \in Clients \ {c} : srv'[d] = srv[d]
  BY <1>3, <1>4 DEF TInv, ServerTypes
<1> QED  BY <1>4, <1>5 DEF TInv, ServerTypes

LEMMA JobSendsEffect ==
  ASSUME TInv, NEW j \in jobs, JobSends(j)
  PROVE  /\ j.client \in Clients /\ srv' \in [Clients -> ConnType] /\ \A d \in Clients : Len(srv'[d].send) <= BufferSize
         /\ srv'[j.client].handler = srv[j.client].handler /\ srv'[j.client].closed = srv[j.client].closed
         /\ Range(srv'[j.client].send) = Range(srv[j.client].send) \cup {j.resp}
         /\ \A d \in Clients \ {j.client} : srv'[d] = srv[d]
<1>0. j.client \in Clients /\ j.resp \in Answer
  BY DEF TInv, ServerTypes, JobType, JobOf
<1> DEFINE c == j.client
           r == j.resp
           s == srv[c]
           q == Append(s.send, r)
           n == [s EXCEPT !.send = q]
<1>1. s \in ConnType /\ Len(s.send) <= BufferSize /\ s.send \in Seq(Answer) /\ BufferSize \in Nat
  BY <1>0, ConnFacts
<1>2. srv' = [srv EXCEPT ![c] = n] /\ Len(s.send) < BufferSize
  BY DEF JobSends, Room
<1>3. q \in Seq(Answer) /\ Len(q) = Len(s.send) + 1 /\ Range(q) = Range(s.send) \cup {r}
  BY <1>0, <1>1, AppendRange
<1>4. Len(q) <= BufferSize
  <2>1. Len(s.send) \in Nat
    BY <1>1, LenProperties
  <2> HIDE DEF q
  <2> QED  BY <1>1, <1>2, <1>3, <2>1
<1> HIDE DEF q, r, c
<1>5. n \in ConnType /\ n.send = q /\ n.handler = s.handler /\ n.closed = s.closed
  BY <1>1, <1>3 DEF ConnType
<1> HIDE DEF n
<1>6. srv' \in [Clients -> ConnType] /\ srv'[c] = n /\ \A d \in Clients \ {c} : srv'[d] = srv[d]
  BY <1>0, <1>2, <1>5 DEF TInv, ServerTypes, c
<1>7. \A d \in Clients : Len(srv'[d].send) <= BufferSize
  BY <1>4, <1>5, <1>6 DEF TInv, ServerTypes
<1> QED  BY <1>0, <1>3, <1>5, <1>6, <1>7 DEF r, c

-----------------------------------------------------------------------------
(* Goroutines of handleBusinessCommand *)

\* An ID names one message, of one client.
LEMMA SameId ==
  ASSUME NEW c \in Clients, NEW m \in Messages(c)
  PROVE  m.id # Missing /\ \A d \in Clients : \A k \in Messages(d) : k.id = m.id => k = m /\ d = c
<1>1. PICK i \in DOMAIN Script[c] : m = Script[c][i]
  BY DEF Messages
<1>2. ASSUME NEW d \in Clients, NEW k \in Messages(d), k.id = m.id PROVE k = m /\ d = c
  <2>1. PICK j \in DOMAIN Script[d] : k = Script[d][j]
    BY DEF Messages
  <2>2. Script[c][i].id = Script[d][j].id
    BY <1>1, <1>2, <2>1
  <2>3. c = d /\ i = j
    BY <2>2, IdsUnique
  <2> QED  BY <1>1, <2>1, <2>3
<1>3. m.id # Missing
  BY <1>1, IdsUnique
<1> QED  BY <1>2, <1>3

LEMMA JobFacts ==
  ASSUME TInv, NEW j \in jobs
  PROVE  j.client \in Clients /\ j.msg \in Messages(j.client) /\ j.resp \in Answer
  BY DEF TInv, ServerTypes, JobType, JobOf

\* A message of a client makes a goroutine.
LEMMA JobIsTyped ==
  ASSUME NEW c \in Clients, NEW m \in Messages(c), NEW st \in JobStates, NEW r \in Answer
  PROVE  Job(c, m, st, r) \in JobType
<1>1. Job(c, m, st, r) \in JobOf(c)
  BY DEF Job, JobOf
<1> QED  BY <1>1 DEF JobType

\* A goroutine goes on.
LEMMA JobGoesOn ==
  ASSUME TInv, NEW j \in jobs, NEW st \in JobStates, NEW x, x = [j EXCEPT !.st = st]
  PROVE  x \in JobType /\ x.msg = j.msg /\ x.st = st /\ x.resp = j.resp
<1>1. PICK c \in Clients : j \in JobOf(c)
  BY DEF TInv, ServerTypes, JobType
<1>2. x \in JobOf(c) /\ x.msg = j.msg /\ x.st = st /\ x.resp = j.resp
  BY <1>1 DEF JobOf
<1> QED  BY <1>2 DEF JobType

\* The steps of a goroutine until it has its answer: it goes on, makes the task, or answers.
Works(j) == JobRoutes(j) \/ JobChecks(j) \/ JobPushes(j) \/ JobAnswers(j)

WorkStep(j, k) ==
    \/ ~Replied(k) /\ k.st # "answer" /\ j.st # "answer" /\ tasks' = tasks
    \/ ~Replied(k) /\ k.st = "answer" /\ j.st # "answer" /\ tasks' = tasks \cup {TaskFor(j.msg)}
    \/ /\ Replied(k) /\ tasks' = tasks /\ k.resp.req \in {Missing, j.msg.id}
       /\ k.resp.req = j.msg.id /\ MakesTask(j.msg.command) => (k.resp.status = "success" <=> j.st = "answer")

LEMMA WorkEffect ==
  ASSUME TInv, NEW j \in jobs, Works(j)
  PROVE  /\ ~Replied(j) /\ UNCHANGED <<cliVars, srv, phase, acceptor, stopPc, crashed>>
         /\ \E k \in JobType : jobs' = (jobs \ {j}) \cup {k} /\ k.msg = j.msg /\ WorkStep(j, k)
<1>0. ~Replied(j) /\ UNCHANGED <<cliVars, srv, phase, acceptor, stopPc, crashed>>
  BY DEF Works, JobRoutes, JobChecks, JobPushes, JobAnswers, Replied
<1> SUFFICES \E k \in JobType : jobs' = (jobs \ {j}) \cup {k} /\ k.msg = j.msg /\ WorkStep(j, k)
  BY <1>0
<1> DEFINE m == j.msg
           e == [req |-> Missing, status |-> "error"]
           f == Response(m, "error")
           r == Response(m, "success")
<1>1. j.client \in Clients /\ m \in Messages(j.client) /\ m.id # Missing
  BY JobFacts, SameId
<1>2. /\ e \in Answer /\ e.req = Missing /\ e.status = "error" /\ f \in Answer /\ f.req = m.id /\ f.status = "error"
      /\ r \in Answer /\ r.req = m.id /\ r.status = "success"
  <2>1. m.id \in Requests /\ Missing \in Requests
    BY <1>1 DEF Requests
  <2> QED  BY <2>1 DEF Answer, Response
<1>3. ASSUME NEW a \in {e, f, r}, AnswerWith(j, a), tasks' = tasks,
             j.st \in {"route", "check", "push", "answer"}, a # e /\ MakesTask(m.command) => (a = r <=> j.st = "answer")
      PROVE  \E k \in JobType : jobs' = (jobs \ {j}) \cup {k} /\ k.msg = j.msg /\ WorkStep(j, k)
  <2> DEFINE y == [j EXCEPT !.st = "lookup", !.resp = a]
  <2>1. jobs' = (jobs \ {j}) \cup {y}
    BY <1>3 DEF AnswerWith, Advance
  <2>2. a \in Answer /\ a.req \in {Missing, m.id} /\ (a.req = m.id => a # e) /\ (a.status = "success" => a = r) /\ r.status = "success"
    BY <1>1, <1>2, <1>3
  <2>3. y \in JobType /\ y.msg = j.msg /\ y.st = "lookup" /\ y.resp = a
    <3>1. a \in Answer
      BY <2>2
    <3> HIDE DEF e, f, r
    <3>2. PICK c \in Clients : j \in JobOf(c)
      BY DEF TInv, ServerTypes, JobType
    <3>3. y \in JobOf(c) /\ y.msg = j.msg /\ y.st = "lookup" /\ y.resp = a
      BY <3>1, <3>2 DEF JobOf, JobStates
    <3> HIDE DEF y
    <3> QED  BY <3>3 DEF JobType
  <2> HIDE DEF y, e, f, r
  <2>4. WorkStep(j, y)
    BY <1>3, <2>2, <2>3 DEF WorkStep, Replied
  <2> QED  BY <2>1, <2>3, <2>4
<1>4. ASSUME NEW st \in {"check", "push", "answer"}, j.st \in {"route", "check", "push"},
             jobs' = (jobs \ {j}) \cup {[j EXCEPT !.st = st]},
             tasks' = IF st = "answer" THEN tasks \cup {TaskFor(m)} ELSE tasks
      PROVE  \E k \in JobType : jobs' = (jobs \ {j}) \cup {k} /\ k.msg = j.msg /\ WorkStep(j, k)
  <2> DEFINE x == [j EXCEPT !.st = st]
  <2>1. x \in JobType /\ x.msg = j.msg /\ x.st = st
    <3>1. x = [j EXCEPT !.st = st] /\ st \in JobStates
      BY DEF JobStates
    <3> HIDE DEF x
    <3> QED  BY <3>1, JobGoesOn
  <2>2. jobs' = (jobs \ {j}) \cup {x}
    BY <1>4
  <2> HIDE DEF x
  <2> QED  BY <1>4, <2>1, <2>2 DEF WorkStep, Replied
<1> HIDE DEF e, f, r
<1>5. CASE JobRoutes(j)
  <2>1. j.st = "route" /\ tasks' = tasks
    BY <1>5 DEF JobRoutes
  <2>2. CASE m.command \in DOMAIN Router /\ MakesTask(m.command)
    <3>1. jobs' = (jobs \ {j}) \cup {[j EXCEPT !.st = "check"]}
      BY <1>5, <2>2 DEF JobRoutes, Advance
    <3> QED  BY <1>4, <2>1, <3>1
  <2>3. CASE ~(m.command \in DOMAIN Router /\ MakesTask(m.command))
    <3> DEFINE a == AnsweredAtOnce(m)
    <3>1. AnswerWith(j, a)
      BY <1>5, <2>3 DEF JobRoutes
    <3>2. a \in {e, f, r} /\ (m.command \notin DOMAIN Router => a \in {e, f})
      BY DEF AnsweredAtOnce, e, f, r
    <3>3. MakesTask(m.command) => a \in {e, f}
      BY <2>3, <3>2
    <3>4. r # e /\ r # f
      BY <1>2
    <3> HIDE DEF a
    <3> QED  BY <1>3, <2>1, <3>1, <3>2, <3>3, <3>4
  <2> QED  BY <2>2, <2>3
<1>6. CASE JobChecks(j)
  <2>1. j.st = "check" /\ tasks' = tasks /\ r # f
    BY <1>2, <1>6 DEF JobChecks
  <2>2. CASE phase = "scheduler"
    <3>1. jobs' = (jobs \ {j}) \cup {[j EXCEPT !.st = "push"]}
      BY <1>6, <2>2 DEF JobChecks, Advance
    <3> QED  BY <1>4, <2>1, <3>1
  <2>3. CASE phase # "scheduler"
    <3>1. AnswerWith(j, f)
      BY <1>6, <2>3 DEF JobChecks, f
    <3> QED  BY <1>3, <2>1, <3>1
  <2> QED  BY <2>2, <2>3
<1>7. CASE JobPushes(j)
  <2>1. /\ j.st = "push" /\ jobs' = (jobs \ {j}) \cup {[j EXCEPT !.st = "answer"]}
        /\ tasks' = tasks \cup {TaskFor(m)}
    BY <1>7 DEF JobPushes, Advance, TaskFor
  <2> QED  BY <1>4, <2>1
<1>8. CASE JobAnswers(j)
  <2>1. j.st = "answer" /\ tasks' = tasks /\ AnswerWith(j, r)
    BY <1>8 DEF JobAnswers, r
  <2> QED  BY <1>3, <2>1
<1> QED  BY <1>5, <1>6, <1>7, <1>8 DEF Works

LEMMA JobLooksUpEffect ==
  ASSUME TInv, NEW j \in jobs, JobLooksUp(j)
  PROVE  \/ jobs' = jobs \ {j}
         \/ \E k \in JobType : jobs' = (jobs \ {j}) \cup {k} /\ k.msg = j.msg /\ k.st = "select" /\ k.resp = j.resp
<1> DEFINE y == [j EXCEPT !.st = "select"]
<1>1. jobs' = jobs \ {j} \/ jobs' = (jobs \ {j}) \cup {y}
  BY DEF JobLooksUp, Advance, Finish
<1>2. y \in JobType /\ y.msg = j.msg /\ y.st = "select" /\ y.resp = j.resp
  <2>1. y = [j EXCEPT !.st = "select"] /\ "select" \in JobStates
    BY DEF JobStates
  <2> HIDE DEF y
  <2> QED  BY <2>1, JobGoesOn
<1> HIDE DEF y
<1> QED  BY <1>1, <1>2

\* What decoding a message adds: a goroutine for it, once the handler is registered.
LEMMA DecodeEffect ==
  ASSUME TInv, NEW c \in Clients, HandlerDecodes(c)
  PROVE  /\ up[c] # <<>> /\ Head(up[c]) \in Messages(c)
         /\ \/ jobs' = jobs
            \/ \E k \in JobType : jobs' = jobs \cup {k} /\ k.msg = Head(up[c]) /\ k.st = "route"
<1>1. up[c] # <<>> /\ jobs' = jobs \cup RouteMessage(c, Head(up[c]))
  BY DEF HandlerDecodes
<1>2. Head(up[c]) \in Messages(c)
  BY <1>1, ClientFacts, HeadTailProperties
<1>3. NoResponse \in Answer
  BY DEF NoResponse, Answer, Requests
<1> DEFINE k == Job(c, Head(up[c]), "route", NoResponse)
<1>4. k \in JobType /\ k.msg = Head(up[c]) /\ k.st = "route"
  BY <1>2, <1>3, JobIsTyped DEF Job, JobStates
<1>5. jobs' = jobs \/ jobs' = jobs \cup {k}
  BY <1>1 DEF RouteMessage
<1> HIDE DEF k
<1> QED  BY <1>1, <1>2, <1>4, <1>5

-----------------------------------------------------------------------------
(* Types and chains are kept *)

LEMMA SameClients ==
  ASSUME TInv, ChainInv, UNCHANGED <<cli, up, down>>
  PROVE  ClientTypes' /\ ChainInv'
  BY DEF TInv, ClientTypes, ChainInv

LEMMA SameChains ==
  ASSUME ChainInv, UNCHANGED cli
  PROVE  ChainInv'
  BY DEF ChainInv

LEMMA StepTypes ==
  ASSUME TInv, ChainInv, Next
  PROVE  TInv' /\ ChainInv'
<1> USE DEF TInv
<1>1. CASE PhaseStep
  <2>1. ServerTypes'
    <3>1. phase' \in {Phases[i] : i \in 1..6}
      BY <1>1 DEF PhaseStep
    <3> QED  BY <1>1, <3>1 DEF PhaseStep, ServerTypes, cliVars
  <2> QED  BY <1>1, <2>1, SameClients DEF PhaseStep, cliVars
<1>2. CASE AcceptEnds
  <2>1. ServerTypes'
    BY <1>2 DEF AcceptEnds, ServerTypes, cliVars
  <2> QED  BY <1>2, <2>1, SameClients DEF AcceptEnds, cliVars
<1>3. ASSUME NEW c \in Clients, AcceptTakes(c) PROVE TInv' /\ ChainInv'
  <2>1. ServerTypes'
    BY <1>3 DEF AcceptTakes, ServerTypes, cliVars
  <2> QED  BY <1>3, <2>1, SameClients DEF AcceptTakes, cliVars
<1>4. ASSUME NEW c \in Clients, AcceptRegisters(c) PROVE TInv' /\ ChainInv'
  <2>1. ServerTypes'
    BY <1>4, AcceptEffect DEF AcceptRegisters, ServerTypes, cliVars
  <2> QED  BY <1>4, <2>1, SameClients DEF AcceptRegisters, cliVars
<1>5. CASE StopCancels
  <2>1. ServerTypes'
    BY <1>5 DEF StopCancels, ServerTypes
  <2> QED  BY <1>5, <2>1, SameClients DEF StopCancels
<1>6. CASE StopSweeps
  <2>1. ServerTypes'
    BY <1>6, SweepSettles DEF StopSweeps, ServerTypes, AllSettle, Settles
  <2> QED  BY <1>6, <2>1, SameClients DEF StopSweeps
<1>7. CASE StopWaits
  <2>1. ServerTypes'
    BY <1>7 DEF StopWaits, ServerTypes, cliVars
  <2> QED  BY <1>7, <2>1, SameClients DEF StopWaits, cliVars
<1>8. ASSUME NEW c \in Clients, HandlerSelect(c) PROVE TInv' /\ ChainInv'
  <2>1. ServerTypes'
    BY <1>8, HandlerSettles DEF HandlerSelect, ServerTypes, AllSettle, Settles, cliVars
  <2> QED  BY <1>8, <2>1, SameClients DEF HandlerSelect, cliVars
<1>9. ASSUME NEW c \in Clients, HandlerEnds(c) PROVE TInv' /\ ChainInv'
  <2>1. ServerTypes'
    BY <1>9, HandlerEndsEffect DEF HandlerEnds, ServerTypes
  <2> QED  BY <1>9, <2>1, SameClients DEF HandlerEnds
<1>10. ASSUME NEW c \in Clients, HandlerDecodes(c) PROVE TInv' /\ ChainInv'
  <2>1. jobs' \subseteq JobType
    BY <1>10, DecodeEffect DEF ServerTypes
  <2>2. ServerTypes'
    BY <1>10, <2>1, HandlerSettles DEF HandlerDecodes, ServerTypes, AllSettle, Settles
  <2>3. ClientTypes'
    BY <1>10, WireTypesKept DEF HandlerDecodes
  <2> QED  BY <1>10, <2>2, <2>3, SameChains DEF HandlerDecodes
<1>11. ASSUME NEW c \in Clients, ServerSends(c) PROVE TInv' /\ ChainInv'
  <2>1. AllSettle /\ Head(srv[c].send) \in Answer
    BY <1>11, ServerSenderSettles
  <2>2. ServerTypes'
    BY <1>11, <2>1 DEF ServerSends, ServerTypes, AllSettle, Settles
  <2>3. ClientTypes'
    BY <1>11, <2>1, WireTypesKept DEF ServerSends
  <2> QED  BY <1>11, <2>2, <2>3, SameChains DEF ServerSends
<1>12. ASSUME NEW c \in Clients, ServerSendFails(c) \/ ServerSenderEnds(c) PROVE TInv' /\ ChainInv'
  <2>1. ServerTypes'
    BY <1>12, ServerSenderSettles DEF ServerSendFails, ServerSenderEnds, ServerTypes, AllSettle, Settles, cliVars
  <2> QED  BY <1>12, <2>1, SameClients DEF ServerSendFails, ServerSenderEnds, cliVars
<1>13. ASSUME NEW c \in Clients, Connect(c, stopPc = "none") \/ ClientStep(c), UNCHANGED srvVars PROVE TInv' /\ ChainInv'
  <2>1. ClientTypes' /\ ChainInv'
    BY <1>13, ClientMoves, ClientTypesKept
  <2>2. cliOpen' \subseteq Clients /\ srvOpen' \subseteq Clients
    BY <1>13 DEF ServerTypes, Connect, ClientStep, RegisterHandler, SendCheck, SendSelect, SenderDrops, SenderEnds,
       SenderWrites, SenderFails, ReceiverEnds, ReceiverDecodes, ReceiverRoutes, Disconnect, DisconnectDrains
  <2>3. ServerTypes'
    BY <1>13, <2>2 DEF ServerTypes, srvVars
  <2> QED  BY <2>1, <2>3
<1>14. ASSUME NEW j \in jobs, Works(j) PROVE TInv' /\ ChainInv'
  <2>1. jobs' \subseteq JobType
    BY <1>14, WorkEffect DEF ServerTypes
  <2>2. ServerTypes'
    BY <1>14, <2>1, WorkEffect DEF ServerTypes, cliVars
  <2> QED  BY <1>14, <2>2, WorkEffect, SameClients DEF cliVars
<1>15. ASSUME NEW j \in jobs, JobLooksUp(j) PROVE TInv' /\ ChainInv'
  <2>1. jobs' \subseteq JobType
    BY <1>15, JobLooksUpEffect DEF ServerTypes
  <2>2. ServerTypes'
    BY <1>15, <2>1 DEF JobLooksUp, ServerTypes, cliVars
  <2> QED  BY <1>15, <2>2, SameClients DEF JobLooksUp, cliVars
<1>16. ASSUME NEW j \in jobs, JobSends(j) PROVE TInv' /\ ChainInv'
  <2>1. ServerTypes'
    BY <1>16, JobSendsEffect DEF JobSends, Finish, ServerTypes, cliVars
  <2> QED  BY <1>16, <2>1, SameClients DEF JobSends, cliVars
<1>17. ASSUME NEW j \in jobs, JobGivesUp(j) \/ JobPanics(j) \/ JobRaces(j) PROVE TInv' /\ ChainInv'
  <2>1. ServerTypes'
    BY <1>17 DEF JobGivesUp, JobPanics, JobRaces, Finish, ServerTypes, cliVars
  <2> QED  BY <1>17, <2>1, SameClients DEF JobGivesUp, JobPanics, JobRaces, cliVars
<1> QED
  BY <1>1, <1>2, <1>3, <1>4, <1>5, <1>6, <1>7, <1>8, <1>9, <1>10, <1>11, <1>12, <1>13, <1>14, <1>15, <1>16, <1>17
  DEF Next, Acceptor, Stop, Handler, ServerSender, JobStep, Works

-----------------------------------------------------------------------------
(* Open connections have an owner *)

\* A client never comes back to the state before Connect.
LEMMA StaysConnected ==
  ASSUME TInv, NEW c \in Clients, Moves(c), NEW d \in Clients, cli'[d].sender = "off"
  PROVE  cli[d].sender = "off"
<1>1. PICK n \in ClientType(c) : Set(c, n) /\ SendStep(c, cli[c], n, up[c], up'[c])
  BY DEF Moves
<1>2. cli'[c] = n /\ \A e \in Clients \ {c} : cli'[e] = cli[e]
  BY <1>1, SetClient
<1> QED  BY <1>1, <1>2 DEF SendStep

\* Steps that open nothing and leave the acceptor alone.
LEMMA CloseSettles ==
  ASSUME CloseInv, AllSettle, UNCHANGED acceptor, srvOpen' \subseteq srvOpen,
         \A c \in Clients : cli'[c].sender = "off" => cli[c].sender = "off",
         stopPc' # "none" /\ stopPc = "none" => \A c \in srvOpen' : Accepted(c) \/ acceptor = c,
         stopPc' = "done" => stopPc = "done"
  PROVE  CloseInv'
<1>1. \A c \in Clients : /\ (srv'[c].handler = "off" <=> srv[c].handler = "off")
                         /\ (srv'[c].handler = "done" <=> srv[c].handler = "done")
                         /\ (srv[c].closed => srv'[c].closed)
  BY DEF AllSettle, Settles
<1> QED  BY <1>1 DEF CloseInv, Accepted, Cancelled

LEMMA StepCloses ==
  ASSUME TInv, ChainInv, CloseInv, Next
  PROVE  CloseInv'
<1>1. CASE PhaseStep
  BY <1>1, SettlesSame, CloseSettles DEF PhaseStep, cliVars
<1>2. CASE AcceptEnds
  <2>1. UNCHANGED <<srv, cli, srvOpen, stopPc>> /\ acceptor = "loop" /\ acceptor' = "done"
    BY <1>2 DEF AcceptEnds, cliVars
  <2>2. \A c \in Clients : acceptor # c /\ acceptor' # c
    BY <2>1, IPCAssumption
  <2> QED  BY <2>1, <2>2 DEF CloseInv, Accepted, Cancelled
<1>3. ASSUME NEW c \in Clients, AcceptTakes(c) PROVE CloseInv'
  <2>1. UNCHANGED <<srv, cli, srvOpen, stopPc>> /\ stopPc = "none" /\ c \in srvOpen /\ acceptor' = c
    BY <1>3 DEF AcceptTakes, cliVars
  <2> QED  BY <2>1 DEF CloseInv, Accepted, Cancelled
<1>4. ASSUME NEW c \in Clients, AcceptRegisters(c) PROVE CloseInv'
  <2>1. UNCHANGED <<cli, srvOpen, stopPc>> /\ acceptor = c /\ acceptor' = "loop"
    BY <1>4 DEF AcceptRegisters, cliVars
  <2>2. srv'[c].handler = "select" /\ \A d \in Clients \ {c} : srv'[d] = srv[d]
    BY <1>4, AcceptEffect
  <2>3. acceptor # "done" /\ \A d \in Clients : acceptor' # d
    BY <2>1, IPCAssumption
  <2>4. stopPc # "done"
    BY <2>3 DEF CloseInv
  <2> QED  BY <2>1, <2>2, <2>3, <2>4 DEF CloseInv, Accepted, Cancelled
<1>5. CASE StopCancels
  BY <1>5, SettlesSame, CloseSettles DEF StopCancels
<1>6. CASE StopSweeps
  BY <1>6, SweepSettles, CloseSettles DEF StopSweeps
<1>7. CASE StopWaits
  <2>1. UNCHANGED <<srv, cli, srvOpen, acceptor>> /\ acceptor = "done" /\ stopPc = "swept" /\ stopPc' = "done"
    BY <1>7 DEF StopWaits, cliVars
  <2>2. \A c \in Clients : Accepted(c) => srv[c].handler = "done"
    BY <1>7 DEF StopWaits
  <2> QED  BY <2>1, <2>2 DEF CloseInv, Accepted, Cancelled
<1>8. ASSUME NEW c \in Clients, HandlerSelect(c) \/ HandlerDecodes(c) PROVE CloseInv'
  BY <1>8, HandlerSettles, CloseSettles DEF HandlerSelect, HandlerDecodes, cliVars
<1>9. ASSUME NEW c \in Clients, HandlerEnds(c) PROVE CloseInv'
  <2>1. UNCHANGED <<cli, acceptor, stopPc>> /\ srvOpen' = srvOpen \ {c} /\ srv[c].handler # "off"
    BY <1>9 DEF HandlerEnds
  <2>2. srv'[c].handler = "done" /\ srv'[c].closed /\ \A d \in Clients \ {c} : srv'[d] = srv[d]
    BY <1>9, HandlerEndsEffect
  <2> QED  BY <2>1, <2>2 DEF CloseInv, Accepted, Cancelled
<1>10. ASSUME NEW c \in Clients, ServerSender(c) PROVE CloseInv'
  BY <1>10, ServerSenderSettles, CloseSettles DEF ServerSender, ServerSends, ServerSendFails, ServerSenderEnds, cliVars
<1>11. ASSUME NEW c \in Clients, ClientStep(c), UNCHANGED srvVars PROVE CloseInv'
  <2>1. \A d \in Clients : cli'[d].sender = "off" => cli[d].sender = "off"
    BY <1>11, ClientMoves, StaysConnected
  <2>2. srvOpen' = srvOpen
    BY <1>11 DEF ClientStep, RegisterHandler, SendCheck, SendSelect, SenderDrops, SenderEnds,
       SenderWrites, SenderFails, ReceiverEnds, ReceiverDecodes, ReceiverRoutes, Disconnect, DisconnectDrains
  <2> QED  BY <1>11, <2>1, <2>2, SettlesSame, CloseSettles DEF srvVars
<1>12. ASSUME NEW c \in Clients, Connect(c, stopPc = "none"), UNCHANGED srvVars PROVE CloseInv'
  <2>1. \A d \in Clients : cli'[d].sender = "off" => cli[d].sender = "off"
    BY <1>12, ClientMoves, StaysConnected
  <2>2. cli'[c].sender = "run" /\ cli[c].sender = "off" /\ srvOpen' = srvOpen \cup {c} /\ stopPc = "none"
    BY <1>12, ClientFacts DEF Connect, Set, TInv, ClientTypes, ClientType
  <2>3. UNCHANGED <<srv, acceptor, stopPc>>
    BY <1>12 DEF srvVars
  <2>4. srv[c].handler = "off"
    BY <2>2 DEF CloseInv, Accepted
  <2> QED  BY <2>1, <2>2, <2>3, <2>4 DEF CloseInv, Accepted, Cancelled
<1>13. ASSUME NEW j \in jobs, Works(j) \/ JobLooksUp(j) \/ JobGivesUp(j) \/ JobPanics(j) \/ JobRaces(j) PROVE CloseInv'
  BY <1>13, WorkEffect, SettlesSame, CloseSettles DEF JobLooksUp, JobGivesUp, JobPanics, JobRaces, cliVars
<1>14. ASSUME NEW j \in jobs, JobSends(j) PROVE CloseInv'
  <2>1. UNCHANGED <<cli, acceptor, stopPc, srvOpen>>
    BY <1>14 DEF JobSends, cliVars
  <2>2. \A d \in Clients : srv'[d].handler = srv[d].handler /\ srv'[d].closed = srv[d].closed
    BY <1>14, JobSendsEffect
  <2> QED  BY <2>1, <2>2 DEF CloseInv, Accepted, Cancelled
<1> QED
  BY <1>1, <1>2, <1>3, <1>4, <1>5, <1>6, <1>7, <1>8, <1>9, <1>10, <1>11, <1>12, <1>13, <1>14
  DEF Next, Acceptor, Stop, Handler, JobStep, Works

-----------------------------------------------------------------------------
(* Answers are true *)

\* What is on its way is a message of the client.
LEMMA ComingIsOwn ==
  ASSUME TInv, NEW c \in Clients
  PROVE  Coming(c) \subseteq Messages(c)
<1>1. /\ cli[c].sendChan \in Seq(Messages(c)) /\ up[c] \in Seq(Messages(c)) /\ cli[c].next \in 1..Len(Script[c]) + 1
      /\ Len(Script[c]) \in Nat /\ \A i \in 1..Len(Script[c]) : Script[c][i] \in Messages(c)
  BY ClientFacts DEF ClientType
<1>2. Range(cli[c].sendChan) \subseteq Messages(c) /\ Range(up[c]) \subseteq Messages(c)
  BY <1>1, RangeOfSeq
<1>3. \A i \in cli[c].next..Len(Script[c]) : i \in 1..Len(Script[c])
  BY <1>1
<1> QED  BY <1>1, <1>2, <1>3 DEF Coming, OnTheWay, Unsent

\* An answer is under way to a client, or a goroutine has it.
LEMMA AnswersMembers ==
  /\ \A r : r \in Answers <=> (\E c \in Clients : r \in Seen(c)) \/ \E j \in jobs : Replied(j) /\ r = j.resp
  /\ \A r : r \in Answers' <=> (\E c \in Clients : r \in Seen(c)') \/ \E j \in jobs' : Replied(j) /\ r = j.resp
  BY DEF Answers

\* Steps that move answers and messages on, or lose them.
LEMMA NothingNew ==
  ASSUME AnswerInv, OnceInv', \A c \in Clients : Coming(c)' \subseteq Coming(c),
         Answers' \subseteq Answers, UNCHANGED tasks, jobs' \subseteq jobs
  PROVE  AnswerInv'
<1>1. \A id : Made(id)' = Made(id)
  BY DEF Made
<1>2. \A id : Answered(id)' => Answered(id)
  BY DEF Answered
<1>3. UnansweredInv'
  <2>1. ASSUME NEW c \in Clients, NEW m \in Coming(c)'
        PROVE  ~Answered(m.id)' /\ Made(m.id)' = {} /\ \A j \in jobs' : j.msg # m
    BY <1>1, <1>2 DEF AnswerInv, UnansweredInv
  <2>2. ASSUME NEW j \in jobs', ~Replied(j)
        PROVE  ~Answered(j.msg.id)' /\ Made(j.msg.id)' = Due(j) /\ \A k \in jobs' : k.msg = j.msg => k = j
    BY <1>1, <1>2, <2>2 DEF AnswerInv, UnansweredInv
  <2> QED  BY <2>1, <2>2 DEF UnansweredInv
<1>4. TruthInv'
  <2>1. \A r : Truth(r) => Truth(r)'
    BY <1>1 DEF Truth
  <2> QED  BY <2>1 DEF AnswerInv, TruthInv
<1> QED  BY <1>3, <1>4 DEF AnswerInv

\* A step of the server leaves the messages where they are.
LEMMA MessagesStay ==
  ASSUME AnswerInv, UNCHANGED <<cli, up>>
  PROVE  OnceInv' /\ \A c \in Clients : Coming(c)' = Coming(c)
  BY DEF AnswerInv, OnceInv, Coming

\* The answers of the goroutines, and those under way.
LEMMA AnswersShrink ==
  ASSUME \A c \in Clients : Seen(c)' \subseteq Seen(c), jobs' \subseteq jobs
  PROVE  Answers' \subseteq Answers
  BY DEF Answers

LEMMA SettledSeen ==
  ASSUME AllSettle, UNCHANGED <<cli, down>>
  PROVE  \A c \in Clients : Seen(c)' \subseteq Seen(c)
  BY DEF AllSettle, Settles, Seen

\* The steps that bring something new: a message reaches its handler, which starts a goroutine
\* for it, and the goroutine makes the task and the answer.
LEMMA DecodeAnswers ==
  ASSUME TInv, AnswerInv, NEW c \in Clients, HandlerDecodes(c)
  PROVE  AnswerInv'
<1> DEFINE m == Head(up[c])
<1>1. /\ up[c] # <<>> /\ up[c] \in Seq(Messages(c)) /\ m \in Messages(c)
      /\ up' = [up EXCEPT ![c] = Tail(@)] /\ UNCHANGED <<cli, down, tasks>>
  BY DecodeEffect, ClientFacts DEF HandlerDecodes
<1>2. /\ Distinct(Tail(up[c])) /\ m \in Range(up[c]) /\ Range(Tail(up[c])) = Range(up[c]) \ {m}
  BY <1>1, TailDistinct DEF AnswerInv, OnceInv, Once
<1>3. up'[c] = Tail(up[c]) /\ \A d \in Clients \ {c} : up'[d] = up[d]
  BY <1>1 DEF TInv, ClientTypes
<1> HIDE DEF m
<1>4. OnceInv'
  BY <1>1, <1>2, <1>3 DEF AnswerInv, OnceInv, Once
<1>5. Coming(c)' = Coming(c) \ {m} /\ m \in Coming(c) /\ \A d \in Clients \ {c} : Coming(d)' = Coming(d)
  BY <1>1, <1>2, <1>3 DEF AnswerInv, OnceInv, Once, Coming, OnTheWay
<1>6. \A d \in Clients : m \notin Coming(d)'
  <2>1. \A d \in Clients \ {c} : m \notin Coming(d)
    BY <1>1, ComingIsOwn, SameId
  <2> QED  BY <1>5, <2>1
<1>7. ~Answered(m.id) /\ Made(m.id) = {} /\ \A j \in jobs : j.msg # m
  BY <1>5 DEF AnswerInv, UnansweredInv
<1>8. \A d \in Clients : Seen(d)' \subseteq Seen(d)
  BY <1>1, HandlerSettles, SettledSeen
<1>9. CASE jobs' = jobs
  <2>1. \A d \in Clients : Coming(d)' \subseteq Coming(d)
    BY <1>5
  <2>2. Answers' \subseteq Answers
    BY <1>8, <1>9, AnswersShrink
  <2> QED  BY <1>1, <1>4, <1>9, <2>1, <2>2, NothingNew
<1>10. ASSUME NEW k, jobs' = jobs \cup {k}, k.msg = m, k.st = "route" PROVE AnswerInv'
  <2>0. ~Replied(k) /\ Due(k) = {}
    BY <1>10 DEF Replied, Due
  <2>1. Answers' \subseteq Answers
    BY <1>8, <1>10, <2>0 DEF Answers
  <2>2. \A id : Made(id)' = Made(id)
    BY <1>1 DEF Made
  <2>3. \A id : Answered(id)' => Answered(id)
    BY <2>1 DEF Answered
  <2>4. ASSUME NEW d \in Clients, NEW x \in Coming(d)'
        PROVE  ~Answered(x.id)' /\ Made(x.id)' = {} /\ \A j \in jobs' : j.msg # x
    BY <1>5, <1>6, <1>10, <2>2, <2>3 DEF AnswerInv, UnansweredInv
  <2>5. ASSUME NEW j \in jobs', ~Replied(j)
        PROVE  ~Answered(j.msg.id)' /\ Made(j.msg.id)' = Due(j) /\ \A l \in jobs' : l.msg = j.msg => l = j
    BY <1>7, <1>10, <2>0, <2>2, <2>3, <2>5 DEF AnswerInv, UnansweredInv
  <2>6. \A r : Truth(r) => Truth(r)'
    BY <2>2 DEF Truth
  <2>7. TruthInv'
    BY <2>1, <2>6 DEF AnswerInv, TruthInv
  <2> QED  BY <1>4, <2>4, <2>5, <2>7 DEF AnswerInv, UnansweredInv
<1> QED  BY <1>9, <1>10, DecodeEffect DEF m

LEMMA WorkAnswers ==
  ASSUME TInv, AnswerInv, NEW j \in jobs, Works(j)
  PROVE  AnswerInv'
<1> DEFINE m == j.msg
           new == TaskFor(m)
<1>0. new.req = m.id
  BY DEF TaskFor
<1>1. PICK k \in JobType : jobs' = (jobs \ {j}) \cup {k} /\ k.msg = m /\ WorkStep(j, k)
  BY WorkEffect
<1>2. UNCHANGED <<cli, up, down, srv>> /\ ~Replied(j)
  BY WorkEffect DEF cliVars
<1>3. OnceInv' /\ \A c \in Clients : Coming(c)' = Coming(c)
  BY <1>2, MessagesStay
<1>4. j.client \in Clients /\ m \in Messages(j.client)
  BY JobFacts
<1>5. ~Answered(m.id) /\ Made(m.id) = Due(j) /\ \A l \in jobs : l.msg = m => l = j
  BY <1>2 DEF AnswerInv, UnansweredInv
<1>6. tasks' = tasks \/ tasks' = tasks \cup {new}
  BY <1>1 DEF WorkStep
<1>7. /\ ~Replied(k) => Made(m.id)' = Due(k)
      /\ Replied(k) => /\ Made(m.id)' = Due(j) /\ k.resp.req \in {Missing, m.id}
                       /\ k.resp.req = m.id /\ MakesTask(m.command) => (k.resp.status = "success" <=> j.st = "answer")
  BY <1>0, <1>1, <1>5 DEF WorkStep, Made, Due
<1> HIDE DEF m, new
<1>8. \A id : id # m.id => Made(id)' = Made(id)
  BY <1>0, <1>6 DEF Made
<1>9. ASSUME NEW r \in Answers' PROVE r \in Answers \/ (Replied(k) /\ r = k.resp)
  <2>1. \A c \in Clients : Seen(c)' = Seen(c)
    BY <1>2 DEF Seen
  <2>2. \A l \in jobs' : l \in jobs \/ l = k
    BY <1>1
  <2>3. (\E c \in Clients : r \in Seen(c)') \/ \E l \in jobs' : Replied(l) /\ r = l.resp
    BY AnswersMembers
  <2> QED  BY <2>1, <2>2, <2>3, AnswersMembers
<1>10. \A id : Answered(id)' => Answered(id) \/ (Replied(k) /\ id \in {m.id, Missing})
  BY <1>7, <1>9 DEF Answered
<1>11. ASSUME NEW c \in Clients, NEW x \in Coming(c)'
       PROVE  ~Answered(x.id)' /\ Made(x.id)' = {} /\ \A l \in jobs' : l.msg # x
  <2>1. x \in Coming(c) /\ x \in Messages(c)
    BY <1>3, ComingIsOwn
  <2>2. ~Answered(x.id) /\ Made(x.id) = {} /\ \A l \in jobs : l.msg # x
    BY <2>1 DEF AnswerInv, UnansweredInv
  <2>3. x.id # Missing /\ x # m
    BY <2>1, <2>2, SameId DEF m
  <2>4. x.id # m.id
    BY <1>4, <2>1, <2>3, SameId
  <2> QED  BY <1>1, <1>8, <1>10, <2>2, <2>3, <2>4
<1>12. ASSUME NEW l \in jobs', ~Replied(l)
       PROVE  ~Answered(l.msg.id)' /\ Made(l.msg.id)' = Due(l) /\ \A i \in jobs' : i.msg = l.msg => i = l
  <2>1. CASE l = k
    <3>1. \A i \in jobs' : i.msg = m => i = k
      BY <1>1, <1>5
    <3> QED  BY <1>1, <1>5, <1>7, <1>10, <1>12, <2>1, <3>1
  <2>2. CASE l # k
    <3>1. l \in jobs /\ l # j
      BY <1>1, <2>2
    <3>2. ~Answered(l.msg.id) /\ Made(l.msg.id) = Due(l) /\ \A i \in jobs : i.msg = l.msg => i = l
      BY <1>12, <3>1 DEF AnswerInv, UnansweredInv
    <3>3. l.client \in Clients /\ l.msg \in Messages(l.client)
      BY <3>1, JobFacts
    <3>4. l.msg # m
      BY <1>5, <3>1
    <3>5. l.msg.id # Missing /\ l.msg.id # m.id
      BY <1>4, <3>3, <3>4, SameId
    <3> QED  BY <1>1, <1>8, <1>10, <3>2, <3>4, <3>5
  <2> QED  BY <2>1, <2>2
<1>13. ASSUME NEW r \in Answers' PROVE Truth(r)'
  <2> SUFFICES ASSUME NEW c \in Clients, NEW x \in Messages(c), r.req = x.id, MakesTask(x.command)
               PROVE  Made(x.id)' = IF r.status = "success" THEN {TaskFor(x)} ELSE {}
    BY DEF Truth
  <2>1. CASE r \in Answers
    <3>1. Made(x.id) = IF r.status = "success" THEN {TaskFor(x)} ELSE {}
      BY <2>1 DEF AnswerInv, TruthInv, Truth
    <3>2. x.id # m.id
      BY <1>5, <2>1 DEF Answered
    <3> QED  BY <1>8, <3>1, <3>2
  <2>2. CASE Replied(k) /\ r = k.resp
    <3>1. r.req # Missing /\ r.req = m.id
      BY <1>7, <2>2, SameId
    <3>2. x = m
      BY <1>4, <3>1, SameId
    <3>3. (r.status = "success" <=> j.st = "answer") /\ Made(m.id)' = Due(j)
      BY <1>7, <2>2, <3>1, <3>2
    <3> QED  BY <3>2, <3>3 DEF Due, m
  <2> QED  BY <1>9, <2>1, <2>2
<1> QED  BY <1>3, <1>11, <1>12, <1>13 DEF AnswerInv, UnansweredInv, TruthInv

\* A step of a client only moves its messages and its answers on.
LEMMA ClientAnswers ==
  ASSUME TInv, AnswerInv, NEW c \in Clients, Moves(c), UNCHANGED srvVars
  PROVE  AnswerInv'
<1>1. PICK n \in ClientType(c) :
        Set(c, n) /\ SendStep(c, cli[c], n, up[c], up'[c]) /\ ReceiveStep(cli[c], n, down[c], down'[c])
  BY DEF Moves
<1>2. cli'[c] = n /\ \A d \in Clients \ {c} : cli'[d] = cli[d] /\ up'[d] = up[d] /\ down'[d] = down[d]
  BY <1>1, SetClient DEF Moves
<1>3. cli[c] \in ClientType(c) /\ up[c] \in Seq(Messages(c)) /\ down[c] \in Seq(Answer)
  BY ClientFacts
<1>4. Once(c, n, up'[c]) /\ OnTheWay(c, n, up'[c]) \subseteq OnTheWay(c, cli[c], up[c])
  BY <1>1, <1>3, SendKeepsOnce DEF AnswerInv, OnceInv
<1>5. Has(n) \cup Range(down'[c]) \subseteq Has(cli[c]) \cup Range(down[c])
  BY <1>1, <1>3, ReceiveKeeps DEF TInv, ClientTypes
<1>6. UNCHANGED <<srv, jobs, tasks>>
  BY DEF srvVars
<1>7. OnceInv'
  BY <1>2, <1>4 DEF AnswerInv, OnceInv
<1>8. ASSUME NEW d \in Clients PROVE Coming(d)' \subseteq Coming(d) /\ Seen(d)' \subseteq Seen(d)
  <2>1. CASE d = c
    BY <1>2, <1>4, <1>5, <1>6, <2>1 DEF Coming, Seen
  <2>2. CASE d # c
    BY <1>2, <1>6, <2>2 DEF Coming, Seen
  <2> QED  BY <2>1, <2>2
<1>9. Answers' \subseteq Answers
  BY <1>6, <1>8, AnswersShrink
<1> QED  BY <1>6, <1>7, <1>8, <1>9, NothingNew

\* Server steps that leave the messages alone and lose answers at most.
LEMMA ServerAnswers ==
  ASSUME AnswerInv, UNCHANGED <<cli, up, tasks>>, \A c \in Clients : Seen(c)' \subseteq Seen(c), jobs' \subseteq jobs
  PROVE  AnswerInv'
  BY MessagesStay, AnswersShrink, NothingNew

LEMMA StepAnswers ==
  ASSUME TInv, ChainInv, AnswerInv, Next
  PROVE  AnswerInv'
<1>1. CASE PhaseStep \/ AcceptEnds \/ StopCancels \/ StopWaits
  BY <1>1, SettlesSame, SettledSeen, ServerAnswers DEF PhaseStep, AcceptEnds, StopCancels, StopWaits, cliVars
<1>2. ASSUME NEW c \in Clients, AcceptTakes(c) PROVE AnswerInv'
  BY <1>2, SettlesSame, SettledSeen, ServerAnswers DEF AcceptTakes, cliVars
<1>3. ASSUME NEW c \in Clients, AcceptRegisters(c) PROVE AnswerInv'
  <2>1. UNCHANGED <<cli, up, down, tasks, jobs>> /\ \A d \in Clients : srv'[d].send = srv[d].send
    BY <1>3, AcceptEffect DEF AcceptRegisters, cliVars
  <2>2. \A d \in Clients : Seen(d)' \subseteq Seen(d)
    BY <2>1 DEF Seen
  <2> QED  BY <2>1, <2>2, ServerAnswers
<1>4. CASE StopSweeps
  BY <1>4, SweepSettles, SettledSeen, ServerAnswers DEF StopSweeps
<1>5. ASSUME NEW c \in Clients, HandlerSelect(c) PROVE AnswerInv'
  BY <1>5, HandlerSettles, SettledSeen, ServerAnswers DEF HandlerSelect, cliVars
<1>6. ASSUME NEW c \in Clients, HandlerEnds(c) PROVE AnswerInv'
  <2>1. UNCHANGED <<cli, up, down, tasks, jobs>> /\ \A d \in Clients : Range(srv'[d].send) \subseteq Range(srv[d].send)
    BY <1>6, HandlerEndsEffect DEF HandlerEnds
  <2>2. \A d \in Clients : Seen(d)' \subseteq Seen(d)
    BY <2>1 DEF Seen
  <2> QED  BY <2>1, <2>2, ServerAnswers
<1>7. ASSUME NEW c \in Clients, ServerSends(c) PROVE AnswerInv'
  <2> DEFINE r == Head(srv[c].send)
  <2>1. AllSettle /\ r \in Answer /\ r \in Range(srv[c].send)
    BY <1>7, ServerSenderSettles
  <2>2. down' = [down EXCEPT ![c] = Append(@, r)] /\ UNCHANGED <<cli, up, tasks, jobs>>
    BY <1>7 DEF ServerSends
  <2> HIDE DEF r
  <2>3. down'[c] = Append(down[c], r) /\ \A d \in Clients \ {c} : down'[d] = down[d]
    BY <2>2 DEF TInv, ClientTypes
  <2>4. Range(down'[c]) = Range(down[c]) \cup {r}
    BY <2>1, <2>3, ClientFacts, AppendRange
  <2>5. ASSUME NEW d \in Clients PROVE Seen(d)' \subseteq Seen(d)
    <3>1. Range(srv'[d].send) \subseteq Range(srv[d].send)
      BY <2>1 DEF AllSettle, Settles
    <3>2. CASE d = c
      BY <2>1, <2>2, <2>4, <3>1, <3>2 DEF Seen
    <3>3. CASE d # c
      BY <2>2, <2>3, <3>1, <3>3 DEF Seen
    <3> QED  BY <3>2, <3>3
  <2> QED  BY <2>2, <2>5, ServerAnswers
<1>8. ASSUME NEW c \in Clients, ServerSendFails(c) \/ ServerSenderEnds(c) PROVE AnswerInv'
  BY <1>8, ServerSenderSettles, SettledSeen, ServerAnswers DEF ServerSendFails, ServerSenderEnds, cliVars
<1>9. ASSUME NEW c \in Clients, Connect(c, stopPc = "none") \/ ClientStep(c), UNCHANGED srvVars PROVE AnswerInv'
  BY <1>9, ClientMoves, ClientAnswers
<1>10. ASSUME NEW j \in jobs, JobLooksUp(j) PROVE AnswerInv'
  <2>0. UNCHANGED <<cli, up, down, srv, tasks>> /\ j.st = "lookup"
    BY <1>10 DEF JobLooksUp, cliVars
  <2>1. \A c \in Clients : Seen(c)' = Seen(c)
    BY <2>0 DEF Seen
  <2>2. CASE jobs' = jobs \ {j}
    BY <2>0, <2>1, <2>2, ServerAnswers
  <2>3. ASSUME NEW k \in JobType, jobs' = (jobs \ {j}) \cup {k},
               k.msg = j.msg, k.st = "select", k.resp = j.resp
        PROVE  AnswerInv'
    <3>1. OnceInv' /\ \A c \in Clients : Coming(c)' = Coming(c)
      BY <2>0, MessagesStay
    <3>2. /\ \A l \in jobs' : l \in jobs \/ l = k
          /\ Replied(j) /\ Replied(k)
      BY <2>0, <2>3 DEF Replied
    <3>3. \A r : r \in Answers' => r \in Answers
      BY <2>1, <2>3, <3>2, AnswersMembers
    <3>4. \A id : Made(id)' = Made(id)
      BY <2>0 DEF Made
    <3>5. \A id : Answered(id)' => Answered(id)
      BY <3>3 DEF Answered
    <3>6. ASSUME NEW c \in Clients, NEW x \in Coming(c)'
          PROVE  ~Answered(x.id)' /\ Made(x.id)' = {} /\ \A l \in jobs' : l.msg # x
      BY <2>3, <3>1, <3>2, <3>4, <3>5 DEF AnswerInv, UnansweredInv
    <3>7. ASSUME NEW l \in jobs', ~Replied(l)
          PROVE  ~Answered(l.msg.id)' /\ Made(l.msg.id)' = Due(l) /\ \A i \in jobs' : i.msg = l.msg => i = l
      <4>1. l \in jobs /\ l # j
        BY <2>3, <3>2, <3>7
      <4>2. ~Answered(l.msg.id) /\ Made(l.msg.id) = Due(l) /\ \A i \in jobs : i.msg = l.msg => i = l
        BY <3>7, <4>1 DEF AnswerInv, UnansweredInv
      <4>3. k.msg # l.msg
        BY <2>3, <4>1, <4>2
      <4> QED  BY <3>2, <3>4, <3>5, <4>2, <4>3
    <3>8. TruthInv'
      <4>1. \A r : Truth(r) => Truth(r)'
        BY <3>4 DEF Truth
      <4> QED  BY <3>3, <4>1 DEF AnswerInv, TruthInv
    <3> QED  BY <3>1, <3>6, <3>7, <3>8 DEF AnswerInv, UnansweredInv
  <2> QED  BY <1>10, <2>2, <2>3, JobLooksUpEffect
<1>11. ASSUME NEW j \in jobs, JobSends(j) PROVE AnswerInv'
  <2>1. UNCHANGED <<cli, up, down, tasks>> /\ jobs' = jobs \ {j} /\ Replied(j)
    BY <1>11 DEF JobSends, Finish, cliVars, Replied
  <2>2. OnceInv' /\ \A c \in Clients : Coming(c)' = Coming(c)
    BY <2>1, MessagesStay
  <2>3. \A c \in Clients : Range(srv'[c].send) \subseteq Range(srv[c].send) \cup {j.resp}
    BY <1>11, JobSendsEffect
  <2>4. ASSUME NEW c \in Clients PROVE Seen(c)' \subseteq Seen(c) \cup {j.resp}
    BY <2>1, <2>3 DEF Seen
  <2>5. j.resp \in Answers
    BY <2>1, AnswersMembers
  <2>6. Answers' \subseteq Answers
    <3> SUFFICES ASSUME NEW r \in Answers' PROVE r \in Answers
      OBVIOUS
    <3>1. CASE \E c \in Clients : r \in Seen(c)'
      BY <2>4, <2>5, <3>1, AnswersMembers
    <3>2. CASE \E l \in jobs' : Replied(l) /\ r = l.resp
      BY <2>1, <3>2, AnswersMembers
    <3> QED  BY <3>1, <3>2, AnswersMembers
  <2> QED  BY <2>1, <2>2, <2>6, NothingNew
<1>12. ASSUME NEW j \in jobs, JobGivesUp(j) \/ JobPanics(j) \/ JobRaces(j) PROVE AnswerInv'
  BY <1>12, SettlesSame, SettledSeen, ServerAnswers DEF JobGivesUp, JobPanics, JobRaces, Finish, cliVars
<1> QED
  BY <1>1, <1>2, <1>3, <1>4, <1>5, <1>6, <1>7, <1>8, <1>9, <1>10, <1>11, <1>12, DecodeAnswers, WorkAnswers
  DEF Next, Acceptor, Stop, Handler, ServerSender, JobStep, Works

-----------------------------------------------------------------------------
(* The theorems *)

IInv == TInv /\ ChainInv /\ CloseInv /\ AnswerInv

LEMMA IPCInit ==
  ASSUME Init
  PROVE  IInv
<1>1. \A c \in Clients : cli[c] = NewClient /\ up[c] = <<>> /\ down[c] = <<>> /\ srv[c] = NewConn
  BY DEF Init
<1>2. ASSUME NEW c \in Clients PROVE NewClient \in ClientType(c)
  <2>1. Len(Script[c]) \in Nat
    BY IPCAssumption, LenProperties
  <2>2. 1 \in 1..Len(Script[c]) + 1 /\ <<>> \in Seq(Messages(c)) /\ <<>> \in Seq(Answer)
    BY <2>1
  <2> QED  BY <2>2 DEF NewClient, ClientType
<1>3. NewConn \in ConnType /\ NewConn.send = <<>> /\ NewConn.handler = "off"
  BY DEF NewConn, ConnType
<1>4. Len(<<>>) = 0 /\ BufferSize \in Nat /\ 0 <= BufferSize
  BY IPCAssumption, EmptySeq
<1>5. /\ NewClient.sendChan = <<>> /\ NewClient.receiveChan = <<>> /\ NewClient.inHand = <<>> /\ NewClient.got = <<>>
      /\ NewClient.sent = <<>> /\ NewClient.written = <<>> /\ ~NewClient.sending /\ ~NewClient.connected
      /\ ~NewClient.cancelled /\ NewClient.sender = "off" /\ NewClient.next = 1
  BY DEF NewClient
<1>6. ClientTypes
  <2>1. \A c \in Clients : <<>> \in Seq(Messages(c))
    OBVIOUS
  <2>2. /\ cli \in [Clients -> UNION {ClientType(c) : c \in Clients}]
        /\ up \in [Clients -> UNION {Seq(Messages(c)) : c \in Clients}]
        /\ down \in [Clients -> Seq(Answer)]
    BY <1>2, <2>1 DEF Init
  <2> QED  BY <1>1, <1>2, <1>4, <1>5, <2>1, <2>2 DEF ClientTypes
<1>7. ServerTypes
  <2>1. srv \in [Clients -> ConnType]
    BY <1>3 DEF Init
  <2>2. phase \in {Phases[i] : i \in 1..6}
    BY DEF Init, Phases
  <2> QED  BY <1>1, <1>3, <1>4, <2>1, <2>2 DEF ServerTypes, Init
<1>8. ChainInv
  <2>1. Begins(<<>>, <<>>)
    <3>1. <<>> \in Seq({}) /\ <<>> \o <<>> = <<>>
      BY EmptySeq, ConcatEmptySeq
    <3> QED  BY <3>1, BeginsConcat
  <2> QED  BY <1>1, <1>5, <2>1 DEF ChainInv, Unbroken
<1>9. CloseInv
  <2>1. \A c \in Clients : acceptor # c
    BY IPCAssumption DEF Init
  <2> QED  BY <1>1, <1>3, <2>1 DEF CloseInv, Accepted, Cancelled, Init
<1>10. Range(<<>>) = {} /\ Distinct(<<>>)
  BY <1>4 DEF Range, Distinct
<1>11. OnceInv
  BY <1>1, <1>5, <1>10 DEF OnceInv, Once
<1>12. Answers = {} /\ jobs = {} /\ tasks = {}
  <2>1. \A c \in Clients : Seen(c) = {}
    BY <1>1, <1>3, <1>5, <1>10 DEF Seen, Has
  <2>2. jobs = {} /\ tasks = {}
    BY DEF Init
  <2> QED  BY <2>1, <2>2, AnswersMembers
<1>13. UnansweredInv /\ TruthInv
  BY <1>11, <1>12 DEF UnansweredInv, TruthInv, Answered, Made
<1> QED  BY <1>6, <1>7, <1>8, <1>9, <1>11, <1>13 DEF IInv, TInv, AnswerInv

LEMMA IPCStep ==
  ASSUME IInv, [Next]_vars
  PROVE  IInv'
<1>1. CASE Next
  BY <1>1, StepTypes, StepCloses, StepAnswers DEF IInv
<1>2. CASE UNCHANGED vars
  <2>1. UNCHANGED <<cli, up, down, cliOpen, srvOpen, phase, srv, acceptor, stopPc, jobs, tasks, crashed>>
    BY <1>2 DEF vars, cliVars, srvVars
  <2>2. TInv' /\ ChainInv'
    BY <2>1, SameClients DEF IInv, TInv, ServerTypes
  <2>3. CloseInv'
    BY <2>1 DEF IInv, CloseInv, Accepted, Cancelled
  <2>4. AnswerInv'
    BY <2>1, SettlesSame, SettledSeen, ServerAnswers DEF IInv
  <2> QED  BY <2>2, <2>3, <2>4 DEF IInv
<1> QED  BY <1>1, <1>2

LEMMA IPCInvariant == Spec => []IInv
  BY IPCInit, IPCStep, PTL DEF Spec

\* ipc/server.go with ipc/client.go keeps its fields in their types and its channels within their
\* buffers, for any number of clients and any scripts.
THEOREM IPCTypeCorrect == Spec => []TypeOK
<1>1. IInv => TypeOK
  BY DEF IInv, TInv, ClientTypes, ServerTypes, TypeOK, ConnType
<1> QED  BY <1>1, IPCInvariant, PTL

\* sendMessages of the client may give up, but it never writes a message after one it dropped.
THEOREM WrittenHasNoGaps == Spec => []NoGaps
<1>1. IInv => NoGaps
  BY DEF IInv, ChainInv, Unbroken, Begins, NoGaps
<1> QED  BY <1>1, IPCInvariant, PTL

\* Stop of the server leaves no connection open, whichever was being accepted meanwhile.
THEOREM StopClosesAll == Spec => []StoppedIsClosed
<1>1. IInv => StoppedIsClosed
  <2> SUFFICES ASSUME IInv, stopPc = "done"
               PROVE  srvOpen = {} /\ \A c \in Clients : Accepted(c) => srv[c].closed
    BY DEF StoppedIsClosed
  <2>1. acceptor = "done" /\ \A c \in Clients : acceptor # c
    BY IPCAssumption DEF IInv, CloseInv
  <2>2. \A c \in Clients : Accepted(c) => srv[c].closed /\ c \notin srvOpen
    BY DEF IInv, CloseInv
  <2>3. \A c \in srvOpen : c \in Clients /\ Accepted(c)
    BY <2>1 DEF IInv, CloseInv, Cancelled, TInv, ServerTypes
  <2> QED  BY <2>2, <2>3
<1> QED  BY <1>1, IPCInvariant, PTL

\* What the business logic makes of a command fits it.
LEMMA TasksFit ==
  ASSUME NEW cmd, MakesTask(cmd)
  PROVE  Fits(TaskOf(cmd), cmd)
  BY DEF Fits, TaskOf

\* The answer handleBusinessCommand sends tells which task the command has: one that fits, a Stop in
\* the emergency queue for "stop", or none.
THEOREM AnswersAreTrue == Spec => []AnswerTellsTheTask
<1>1. IInv => AnswerTellsTheTask
  <2> SUFFICES ASSUME IInv, NEW c \in Clients, NEW m \in Messages(c), NEW i \in DOMAIN ToClient(c),
                      ToClient(c)[i].req = m.id, MakesTask(m.command)
               PROVE  IF ToClient(c)[i].status = "success"
                      THEN \E t \in Made(m.id) : Made(m.id) = {t} /\ Fits(t.task, m.command) ELSE Made(m.id) = {}
    BY DEF AnswerTellsTheTask, Made
  <2> DEFINE a == cli[c].got
             b == cli[c].receiveChan
             d == cli[c].inHand
             e == down[c]
             f == srv[c].send
             r == ToClient(c)[i]
             ab == a \o b
             abd == ab \o d
             abde == abd \o e
  <2>1. a \in Seq(Answer) /\ b \in Seq(Answer) /\ d \in Seq(Answer) /\ e \in Seq(Answer) /\ f \in Seq(Answer)
    BY ClientFacts, ConnFacts DEF IInv, ClientType
  <2>2. ToClient(c) = abde \o f
    BY DEF ToClient
  <2>3. r \in Range(ToClient(c))
    BY DEF Range
  <2>4. Seen(c) = (((Range(a) \cup Range(b)) \cup Range(d)) \cup Range(e)) \cup Range(f)
    BY DEF Seen, Has
  <2> HIDE DEF a, b, d, e, f, r
  <2>5. ab \in Seq(Answer) /\ Range(ab) = Range(a) \cup Range(b)
    BY <2>1, ConcatRange
  <2> HIDE DEF ab
  <2>6. abd \in Seq(Answer) /\ Range(abd) = Range(ab) \cup Range(d)
    BY <2>1, <2>5, ConcatRange
  <2> HIDE DEF abd
  <2>7. abde \in Seq(Answer) /\ Range(abde) = Range(abd) \cup Range(e)
    BY <2>1, <2>6, ConcatRange
  <2> HIDE DEF abde
  <2>8. Range(abde \o f) = Range(abde) \cup Range(f)
    BY <2>1, <2>7, ConcatRange
  <2>9. r \in Seen(c)
    BY <2>2, <2>3, <2>4, <2>5, <2>6, <2>7, <2>8
  <2>10. Truth(r)
    BY <2>9, AnswersMembers DEF IInv, AnswerInv, TruthInv
  <2>11. Made(m.id) = IF r.status = "success" THEN {TaskFor(m)} ELSE {}
    BY <2>10 DEF Truth, r
  <2>12. Fits(TaskFor(m).task, m.command)
    BY TasksFit DEF TaskFor
  <2> QED  BY <2>11, <2>12 DEF r
<1> QED  BY <1>1, IPCInvariant, PTL
=============================================================================
