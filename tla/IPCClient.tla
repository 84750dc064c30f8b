------------------------------ MODULE IPCClient ------------------------------
(***************************************************************************)
(* ipc/client.go, as cmd/simulator uses it: one goroutine calls Send, one  *)
(* calls Disconnect, and each client has a sending and a receiving         *)
(* goroutine.  up and down are the two directions of its TCP connection.   *)
(* In a Go select every ready case may be taken, and the default only when *)
(* no case is ready.                                                       *)
(***************************************************************************)
EXTENDS Naturals, Sequences

CONSTANTS Clients,
          Script,      \* the messages each client sends, in order
          BufferSize   \* of every channel

Message == [id : STRING, command : STRING]

\* The value of a field that is not in the message.
Missing == ""

ASSUME IPCAssumption ==
    /\ Script \in [Clients -> Seq(Message)]
    /\ BufferSize \in Nat
    /\ Clients \cap {"loop", "done"} = {}

\* A message ID ("msg-" and the time) is taken to be unique, and it is not empty.
ASSUME IdsUnique ==
    \A c, d \in Clients : \A i \in DOMAIN Script[c], j \in DOMAIN Script[d] :
        /\ Script[c][i].id # Missing
        /\ Script[c][i].id = Script[d][j].id => c = d /\ i = j

VARIABLES cli,         \* IPCClient of each client
          up, down,    \* messages on the wire
          cliOpen, srvOpen  \* the two ends of the connection

cliVars == <<cli, up, down, cliOpen, srvOpen>>

Messages(c) == {Script[c][i] : i \in DOMAIN Script[c]}

\* A response names its request, or none.
Requests == {Missing} \cup UNION {{m.id : m \in Messages(c)} : c \in Clients}
Answer == [req : Requests, status : {"none", "success", "error"}]

NewClient == [connected |-> FALSE, cancelled |-> FALSE, drained |-> FALSE, handles |-> FALSE,
              sendChan |-> <<>>, sendClosed |-> FALSE, receiveChan |-> <<>>, receiveClosed |-> FALSE,
              sender |-> "off", receiver |-> "off", inHand |-> <<>>,
              next |-> 1, sending |-> FALSE, panic |-> FALSE,
              sent |-> <<>>, written |-> <<>>, got |-> <<>>]  \* history

\* The fields of a client.
ClientType(c) ==
    [connected : BOOLEAN, cancelled : BOOLEAN, drained : BOOLEAN, handles : BOOLEAN,
     sendChan : Seq(Messages(c)), sendClosed : BOOLEAN, receiveChan : Seq(Answer), receiveClosed : BOOLEAN,
     sender : {"off", "run", "done"}, receiver : {"off", "run", "done"}, inHand : Seq(Answer),
     next : 1..Len(Script[c]) + 1, sending : BOOLEAN, panic : BOOLEAN,
     sent : Seq(Messages(c)), written : Seq(Messages(c)), got : Seq(Answer)]

Set(c, new) == cli' = [cli EXCEPT ![c] = new]

\* Connect, once per client; listening is the server's listener.
Connect(c, listening) ==
    /\ listening /\ cli[c].sender = "off"
    /\ Set(c, [cli[c] EXCEPT !.connected = TRUE, !.sender = "run", !.receiver = "run"])
    /\ cliOpen' = cliOpen \cup {c} /\ srvOpen' = srvOpen \cup {c}
    /\ UNCHANGED <<up, down>>

\* The simulator registers its handler for responses after Connect.
RegisterHandler(c) ==
    /\ cli[c].sender # "off" /\ ~cli[c].handles
    /\ Set(c, [cli[c] EXCEPT !.handles = TRUE])
    /\ UNCHANGED <<up, down, cliOpen, srvOpen>>

\* Bug for a mutant: the channel is made one place too large.
RoomForOneMore(chan) == Len(chan) <= BufferSize

\* The channels are made with BufferSize places.
Room(chan) == Len(chan) < BufferSize

\* Send: the connected check, and later the select.
SendCheck(c) ==
    /\ cli[c].connected /\ ~cli[c].sending /\ cli[c].next <= Len(Script[c])
    /\ Set(c, [cli[c] EXCEPT !.sending = TRUE])
    /\ UNCHANGED <<up, down, cliOpen, srvOpen>>

SendSelect(c) ==
    LET s == [cli[c] EXCEPT !.sending = FALSE, !.next = @ + 1] IN
    /\ cli[c].sending
    /\ \/ /\ ~cli[c].sendClosed /\ Room(cli[c].sendChan)
          /\ Set(c, [s EXCEPT !.sendChan = Append(@, Script[c][cli[c].next]), !.sent = Append(@, Script[c][cli[c].next])])
       \/ cli[c].sendClosed /\ Set(c, [s EXCEPT !.panic = TRUE])
       \/ cli[c].cancelled /\ Set(c, s)
       \/ ~Room(cli[c].sendChan) /\ Set(c, s)
    /\ UNCHANGED <<up, down, cliOpen, srvOpen>>

-----------------------------------------------------------------------------
(* sendMessages: two of its cases receive from sendChan; the first takes a *)
(* message for the sign of a closed channel, drops it and returns.         *)

\* Bug for a mutant: the first case goes round the loop instead.
SenderDropsOn(c) ==
    /\ cli[c].sender = "run" /\ cli[c].sendChan # <<>>
    /\ Set(c, [cli[c] EXCEPT !.sendChan = Tail(@)])
    /\ UNCHANGED <<up, down, cliOpen, srvOpen>>

SenderDrops(c) ==
    /\ cli[c].sender = "run" /\ cli[c].sendChan # <<>>
    /\ Set(c, [cli[c] EXCEPT !.sendChan = Tail(@), !.sender = "done"])
    /\ UNCHANGED <<up, down, cliOpen, srvOpen>>

SenderEnds(c) ==
    /\ cli[c].sender = "run"
    /\ cli[c].cancelled \/ cli[c].sendClosed
    /\ Set(c, [cli[c] EXCEPT !.sender = "done"])
    /\ UNCHANGED <<up, down, cliOpen, srvOpen>>

SenderWrites(c) ==
    /\ cli[c].sender = "run" /\ cli[c].sendChan # <<>> /\ cli[c].connected /\ c \in cliOpen
    /\ Set(c, [cli[c] EXCEPT !.sendChan = Tail(@), !.written = Append(@, Head(cli[c].sendChan))])
    /\ up' = [up EXCEPT ![c] = Append(@, Head(cli[c].sendChan))]
    /\ UNCHANGED <<down, cliOpen, srvOpen>>

\* The client is not connected any more, or the write fails because an end is closed.
SenderFails(c) ==
    /\ cli[c].sender = "run" /\ cli[c].sendChan # <<>>
    /\ ~cli[c].connected \/ c \notin cliOpen \cap srvOpen
    /\ Set(c, [cli[c] EXCEPT !.sendChan = Tail(@), !.sender = "done", !.connected = FALSE])
    /\ UNCHANGED <<up, down, cliOpen, srvOpen>>

-----------------------------------------------------------------------------
(* receiveMessages: a message waiting in receiveChan is taken for the sign *)
(* of a closed channel too.                                                *)

\* Besides, Decode fails when an end is closed or nothing came for 30 s.
ReceiverEnds(c) ==
    LET s == cli[c] IN
    /\ s.receiver = "run" /\ s.inHand = <<>>
    /\ \/ s.cancelled /\ Set(c, [s EXCEPT !.receiver = "done"])
       \/ s.receiveChan # <<>> /\ Set(c, [s EXCEPT !.receiver = "done", !.receiveChan = Tail(@)])
       \/ s.receiveChan = <<>> /\ s.receiveClosed /\ Set(c, [s EXCEPT !.receiver = "done"])
       \/ /\ s.receiveChan = <<>> /\ (down[c] = <<>> \/ c \notin cliOpen \cap srvOpen)
          /\ Set(c, [s EXCEPT !.receiver = "done", !.connected = FALSE])
    /\ UNCHANGED <<up, down, cliOpen, srvOpen>>

ReceiverDecodes(c) ==
    LET s == cli[c] IN
    /\ s.receiver = "run" /\ s.inHand = <<>> /\ c \in cliOpen /\ down[c] # <<>>
    /\ ~s.cancelled /\ ~s.receiveClosed /\ s.receiveChan = <<>>
    /\ Set(c, [s EXCEPT !.inHand = <<Head(down[c])>>])
    /\ down' = [down EXCEPT ![c] = Tail(@)]
    /\ UNCHANGED <<up, cliOpen, srvOpen>>

\* routeMessage: to the handler, else into receiveChan, which may be closed by now.  (It is
\* empty when the receiver decodes, so the 100 ms of patience with a full one never run out.)
ReceiverRoutes(c) ==
    LET s == [cli[c] EXCEPT !.inHand = <<>>] IN
    /\ cli[c].inHand # <<>>
    /\ \/ s.handles /\ Set(c, [s EXCEPT !.got = @ \o cli[c].inHand])
       \/ ~s.handles /\ ~s.receiveClosed /\ Set(c, [s EXCEPT !.receiveChan = @ \o cli[c].inHand])
       \/ ~s.handles /\ s.receiveClosed /\ Set(c, [s EXCEPT !.panic = TRUE])
       \/ ~s.handles /\ s.cancelled /\ Set(c, s)
    /\ UNCHANGED <<up, down, cliOpen, srvOpen>>

-----------------------------------------------------------------------------
(* Disconnect: cancel and close the connection, then drain or close the    *)
(* channels.  It waits for the goroutines at most three seconds.           *)

Disconnect(c) ==
    /\ cli[c].connected
    /\ Set(c, [cli[c] EXCEPT !.cancelled = TRUE, !.connected = FALSE])
    /\ cliOpen' = cliOpen \ {c}
    /\ UNCHANGED <<up, down, srvOpen>>

DisconnectDrains(c) ==
    LET s == cli[c] IN
    /\ s.cancelled /\ ~s.drained
    /\ Set(c, [s EXCEPT !.drained = TRUE,
                        !.receiveChan = IF @ = <<>> THEN @ ELSE Tail(@), !.receiveClosed = (s.receiveChan = <<>>),
                        !.sendChan = IF @ = <<>> THEN @ ELSE Tail(@), !.sendClosed = (s.sendChan = <<>>)])
    /\ UNCHANGED <<up, down, cliOpen, srvOpen>>

\* A client that panicked is gone with its process.
ClientStep(c) == ~cli[c].panic /\
    (\/ RegisterHandler(c) \/ SendCheck(c) \/ SendSelect(c)
     \/ SenderDrops(c) \/ SenderEnds(c) \/ SenderWrites(c) \/ SenderFails(c)
     \/ ReceiverEnds(c) \/ ReceiverDecodes(c) \/ ReceiverRoutes(c)
     \/ Disconnect(c) \/ DisconnectDrains(c))

\* What a client has written is the beginning of what Send accepted: the sender may give up,
\* but it never goes on after a message it dropped.
NoGaps == \A c \in Clients :
    /\ Len(cli[c].written) <= Len(cli[c].sent)
    /\ cli[c].written = SubSeq(cli[c].sent, 1, Len(cli[c].written))
=============================================================================
