------------------------------ MODULE IPCServer ------------------------------
(***************************************************************************)
(* ipc/server.go with its clients, and the handler the application manager *)
(* registers for business commands.  The infrastructure starts the server  *)
(* before that handler is registered, before the command router has its    *)
(* handlers and before the scheduler runs, and stops it after the          *)
(* scheduler.                                                              *)
(*                                                                         *)
(* A client ID ("client-" and the time) is taken to be unique.  A panic in *)
(* any goroutine ends the server's process.                                *)
(***************************************************************************)
EXTENDS IPCClient, BusinessCommands, FiniteSets

VARIABLES phase,     \* of the application, see Phases
          srv,       \* Client of each accepted connection
          acceptor,  \* acceptConnections
          stopPc,
          jobs,      \* goroutines of handleBusinessCommand
          tasks,     \* history: what was scheduled, with the request it was for
          crashed

srvVars == <<phase, srv, acceptor, stopPc, jobs, tasks, crashed>>
vars == <<cliVars, srvVars>>

\* The infrastructure runs; registerIPCHandlers has returned; the router has the business logic's
\* commands; it has all of them; the scheduler runs, and does so no more.
Phases == <<"infrastructure", "ipc", "business", "handlers", "scheduler", "stopped">>

NewConn == [inTable |-> FALSE, active |-> TRUE, closed |-> FALSE, send |-> <<>>, sendClosed |-> FALSE,
            handler |-> "off", sender |-> "off"]

Response(m, status) == [req |-> m.id, status |-> status]
NoResponse == [req |-> Missing, status |-> "none"]

\* A goroutine works on message m of client c.
Job(c, m, st, resp) == [client |-> c, msg |-> m, st |-> st, resp |-> resp]

TypeOK ==
    /\ \A c \in Clients :
          /\ cli[c] \in ClientType(c)
          /\ srv[c].handler \in {"off", "select", "decode", "done"} /\ srv[c].sender \in {"off", "run", "done"}
          /\ Len(cli[c].sendChan) <= BufferSize /\ Len(srv[c].send) <= BufferSize
          /\ Len(cli[c].receiveChan) <= 1
    /\ cliOpen \subseteq Clients /\ srvOpen \subseteq Clients
    /\ phase \in {Phases[i] : i \in 1..6}
    /\ acceptor \in {"loop", "done"} \cup Clients
    /\ stopPc \in {"none", "cancelled", "swept", "done"}

Init ==
    /\ cli = [c \in Clients |-> NewClient]
    /\ up = [c \in Clients |-> <<>>] /\ down = [c \in Clients |-> <<>>]
    /\ cliOpen = {} /\ srvOpen = {}
    /\ phase = "infrastructure" /\ srv = [c \in Clients |-> NewConn]
    /\ acceptor = "loop" /\ stopPc = "none" /\ jobs = {} /\ tasks = {} /\ crashed = FALSE

Cancelled == stopPc # "none"
Accepted(c) == srv[c].handler # "off"

\* SetupDependencies, Start and Stop of the layers above.
PhaseStep ==
    /\ \E i \in 1..5 : phase = Phases[i] /\ phase' = Phases[i + 1]
    /\ UNCHANGED <<cliVars, srv, acceptor, stopPc, jobs, tasks, crashed>>

-----------------------------------------------------------------------------
(* Connections.                                                            *)

\* Accept returns; the client is registered and its goroutines start later.
AcceptTakes(c) ==
    /\ acceptor = "loop" /\ stopPc = "none" /\ c \in srvOpen /\ ~Accepted(c)
    /\ acceptor' = c
    /\ UNCHANGED <<cliVars, phase, srv, stopPc, jobs, tasks, crashed>>

AcceptRegisters(c) ==
    /\ acceptor = c
    /\ acceptor' = "loop"
    /\ srv' = [srv EXCEPT ![c].inTable = TRUE, ![c].handler = "select", ![c].sender = "run"]
    /\ UNCHANGED <<cliVars, phase, stopPc, jobs, tasks, crashed>>

AcceptEnds ==
    /\ acceptor = "loop" /\ Cancelled
    /\ acceptor' = "done"
    /\ UNCHANGED <<cliVars, phase, srv, stopPc, jobs, tasks, crashed>>

\* safeCloseClient, once per client.  With something left in Send it takes one item out and
\* leaves the channel open.
SafelyClosed(s) ==
    IF s.closed THEN s
    ELSE [s EXCEPT !.closed = TRUE, !.active = FALSE,
                   !.send = IF @ = <<>> THEN @ ELSE Tail(@),
                   !.sendClosed = (s.send = <<>>)]

HandlerSelect(c) ==
    /\ srv[c].handler = "select" /\ ~Cancelled /\ ~srv[c].closed
    /\ srv' = [srv EXCEPT ![c].handler = "decode"]
    /\ UNCHANGED <<cliVars, phase, acceptor, stopPc, jobs, tasks, crashed>>

\* Bug for a mutant: a handler that sees the server stop leaves its client as it is.
HandlerLeaves(c) ==
    /\ \/ srv[c].handler = "select" /\ (Cancelled \/ srv[c].closed)
       \/ srv[c].handler = "decode" /\ (up[c] = <<>> \/ c \notin cliOpen \cap srvOpen)
    /\ srv' = [srv EXCEPT ![c].handler = "done"]
    /\ UNCHANGED <<cliVars, phase, acceptor, stopPc, jobs, tasks, crashed>>

\* The server stops, the client was closed, or Decode fails: an end is closed, or nothing
\* came for 30 s.
HandlerEnds(c) ==
    /\ \/ srv[c].handler = "select" /\ (Cancelled \/ srv[c].closed)
       \/ srv[c].handler = "decode" /\ (up[c] = <<>> \/ c \notin cliOpen \cap srvOpen)
    /\ srv' = [srv EXCEPT ![c] = SafelyClosed([@ EXCEPT !.handler = "done"])]
    /\ srvOpen' = srvOpen \ {c}
    /\ UNCHANGED <<cli, up, down, cliOpen, phase, acceptor, stopPc, jobs, tasks, crashed>>

\* routeMessage: a message that comes before its handler is registered is dropped (as is one
\* of a type nobody handles).  The registered handler only starts a goroutine.
RouteMessage(c, m) == IF phase = "infrastructure" THEN {} ELSE {Job(c, m, "route", NoResponse)}

HandlerDecodes(c) ==
    /\ srv[c].handler = "decode" /\ c \in srvOpen /\ up[c] # <<>>
    /\ up' = [up EXCEPT ![c] = Tail(@)]
    /\ srv' = [srv EXCEPT ![c].handler = "select"]
    /\ jobs' = jobs \cup RouteMessage(c, Head(up[c]))
    /\ UNCHANGED <<cli, down, cliOpen, srvOpen, phase, acceptor, stopPc, tasks, crashed>>

-----------------------------------------------------------------------------
(* sendToClient.                                                           *)

ServerSends(c) ==
    /\ srv[c].sender = "run" /\ srv[c].send # <<>> /\ srv[c].active /\ c \in srvOpen
    /\ srv' = [srv EXCEPT ![c].send = Tail(@)]
    /\ down' = [down EXCEPT ![c] = Append(@, Head(srv[c].send))]
    /\ UNCHANGED <<cli, up, cliOpen, srvOpen, phase, acceptor, stopPc, jobs, tasks, crashed>>

\* The client is inactive or the write fails; the client is not closed.
ServerSendFails(c) ==
    /\ srv[c].sender = "run" /\ srv[c].send # <<>>
    /\ ~srv[c].active \/ c \notin cliOpen \cap srvOpen
    /\ srv' = [srv EXCEPT ![c].send = Tail(@), ![c].sender = "done"]
    /\ UNCHANGED <<cliVars, phase, acceptor, stopPc, jobs, tasks, crashed>>

\* Bug for a mutant: the sender only looks at its channel.
ServerSenderWaits(c) ==
    /\ srv[c].sender = "run" /\ srv[c].sendClosed
    /\ srv' = [srv EXCEPT ![c].sender = "done"]
    /\ UNCHANGED <<cliVars, phase, acceptor, stopPc, jobs, tasks, crashed>>

ServerSenderEnds(c) ==
    /\ srv[c].sender = "run"
    /\ Cancelled \/ srv[c].closed \/ srv[c].sendClosed
    /\ srv' = [srv EXCEPT ![c].sender = "done"]
    /\ UNCHANGED <<cliVars, phase, acceptor, stopPc, jobs, tasks, crashed>>

-----------------------------------------------------------------------------
(* The goroutine of handleBusinessCommand.                                 *)

Advance(j, k) == jobs' = (jobs \ {j}) \cup {k}
Finish(j) == jobs' = jobs \ {j}

AnswerWith(j, r) == Advance(j, [j EXCEPT !.st = "lookup", !.resp = r])

\* The handlers of the command router.
Router == CASE phase \in {"infrastructure", "ipc"} -> NoHandlers
            [] phase = "business" -> BusinessHandlers
            [] OTHER -> Handlers

\* A malformed message is answered with an error that names no request, a command the router has
\* no handler for, or not yet, with one that does.
AnsweredAtOnce(m) ==
    CASE m.command = Missing -> [req |-> Missing, status |-> "error"]
      [] m.command \in DOMAIN Router -> Response(m, "success")
      [] OTHER -> Response(m, "error")

JobRoutes(j) ==
    /\ j.st = "route"
    /\ IF j.msg.command \in DOMAIN Router /\ MakesTask(j.msg.command)
       THEN Advance(j, [j EXCEPT !.st = "check"]) ELSE AnswerWith(j, AnsweredAtOnce(j.msg))
    /\ UNCHANGED <<cliVars, phase, srv, acceptor, stopPc, tasks, crashed>>

\* The router's map has no lock: a read while RegisterHandler writes it may end the process.
JobRaces(j) ==
    /\ j.st = "route" /\ j.msg.command # Missing /\ phase \in {"ipc", "business"}
    /\ crashed' = TRUE
    /\ UNCHANGED <<cliVars, phase, srv, acceptor, stopPc, jobs, tasks>>

\* Bug for a mutant: the error of ScheduleTask is only logged.
JobChecksLogged(j) ==
    /\ j.st = "check"
    /\ IF phase = "scheduler" THEN Advance(j, [j EXCEPT !.st = "push"]) ELSE AnswerWith(j, Response(j.msg, "success"))
    /\ UNCHANGED <<cliVars, phase, srv, acceptor, stopPc, tasks, crashed>>

\* ScheduleTask: whether the scheduler runs, and later the push to a queue, by which time it may
\* have been stopped.
JobChecks(j) ==
    /\ j.st = "check"
    /\ IF phase = "scheduler" THEN Advance(j, [j EXCEPT !.st = "push"]) ELSE AnswerWith(j, Response(j.msg, "error"))
    /\ UNCHANGED <<cliVars, phase, srv, acceptor, stopPc, tasks, crashed>>

JobPushes(j) ==
    /\ j.st = "push"
    /\ tasks' = tasks \cup {[req |-> j.msg.id, task |-> TaskOf(j.msg.command)]}
    /\ Advance(j, [j EXCEPT !.st = "answer"])
    /\ UNCHANGED <<cliVars, phase, srv, acceptor, stopPc, crashed>>

JobAnswers(j) ==
    /\ j.st = "answer" /\ AnswerWith(j, Response(j.msg, "success"))
    /\ UNCHANGED <<cliVars, phase, srv, acceptor, stopPc, tasks, crashed>>

\* SendToClient: the table and Active, and later the select.
JobLooksUp(j) ==
    /\ j.st = "lookup"
    /\ IF srv[j.client].inTable /\ srv[j.client].active THEN Advance(j, [j EXCEPT !.st = "select"]) ELSE Finish(j)
    /\ UNCHANGED <<cliVars, phase, srv, acceptor, stopPc, tasks, crashed>>

JobSends(j) ==
    LET s == srv[j.client] IN
    /\ j.st = "select" /\ ~s.sendClosed /\ Room(s.send)
    /\ srv' = [srv EXCEPT ![j.client].send = Append(@, j.resp)]
    /\ Finish(j)
    /\ UNCHANGED <<cliVars, phase, acceptor, stopPc, tasks, crashed>>

\* The client was closed, or Send stayed full for 5 s.
JobGivesUp(j) ==
    /\ j.st = "select" /\ (srv[j.client].closed \/ ~Room(srv[j.client].send))
    /\ Finish(j)
    /\ UNCHANGED <<cliVars, phase, srv, acceptor, stopPc, tasks, crashed>>

\* A ready send on a closed channel may be what the select takes.
JobPanics(j) ==
    /\ j.st = "select" /\ srv[j.client].sendClosed
    /\ crashed' = TRUE
    /\ UNCHANGED <<cliVars, phase, srv, acceptor, stopPc, jobs, tasks>>

-----------------------------------------------------------------------------
(* Stop.                                                                   *)

\* Connections nobody has accepted are reset with the listener.
StopCancels ==
    /\ phase = "stopped" /\ stopPc = "none"
    /\ stopPc' = "cancelled"
    /\ srvOpen' = {c \in srvOpen : Accepted(c) \/ acceptor = c}
    /\ UNCHANGED <<cli, up, down, cliOpen, phase, srv, acceptor, jobs, tasks, crashed>>

StopSweeps ==
    /\ stopPc = "cancelled"
    /\ stopPc' = "swept"
    /\ srv' = [c \in Clients |-> IF srv[c].inTable THEN [SafelyClosed(srv[c]) EXCEPT !.inTable = FALSE] ELSE srv[c]]
    /\ srvOpen' = {c \in srvOpen : ~srv[c].inTable}
    /\ UNCHANGED <<cli, up, down, cliOpen, phase, acceptor, jobs, tasks, crashed>>

StopWaits ==
    /\ stopPc = "swept" /\ acceptor = "done"
    /\ \A c \in Clients : Accepted(c) => srv[c].handler = "done" /\ srv[c].sender = "done"
    /\ stopPc' = "done"
    /\ UNCHANGED <<cliVars, phase, srv, acceptor, jobs, tasks, crashed>>

Acceptor == AcceptEnds \/ \E c \in Clients : AcceptTakes(c) \/ AcceptRegisters(c)
Handler(c) == HandlerSelect(c) \/ HandlerEnds(c) \/ HandlerDecodes(c)
ServerSender(c) == ServerSends(c) \/ ServerSendFails(c) \/ ServerSenderEnds(c)
JobStep(j) == \/ JobRoutes(j) \/ JobRaces(j) \/ JobChecks(j) \/ JobPushes(j) \/ JobAnswers(j)
              \/ JobLooksUp(j) \/ JobSends(j) \/ JobGivesUp(j) \/ JobPanics(j)
Stop == StopCancels \/ StopSweeps \/ StopWaits

Next == ~crashed /\
    (\/ PhaseStep \/ Acceptor \/ Stop
     \/ \E c \in Clients : Handler(c) \/ ServerSender(c)
     \/ \E c \in Clients : (Connect(c, stopPc = "none") \/ ClientStep(c)) /\ UNCHANGED srvVars
     \/ \E j \in jobs : JobStep(j))

Spec == Init /\ [][Next]_vars

\* The goroutines Stop waits for are scheduled; Decode returns after 30 s at the latest.
FairSpec ==
    /\ Spec
    /\ WF_vars(~crashed /\ Acceptor)
    /\ \A c \in Clients : WF_vars(~crashed /\ Handler(c)) /\ WF_vars(~crashed /\ ServerSender(c))
    /\ WF_vars(~crashed /\ (StopSweeps \/ StopWaits))

-----------------------------------------------------------------------------
\* Everything on its way to client c, or there.
ToClient(c) == cli[c].got \o cli[c].receiveChan \o cli[c].inHand \o down[c] \o srv[c].send

\* The emergency queue and the command type Stop are for "stop", and for nothing else.
Fits(task, cmd) == /\ cmd = "stop" <=> task.priority = "Emergency"
                   /\ cmd = "stop" <=> task.type = "Stop"
                   /\ cmd = "home" => task.type = "Home"

\* A command that was answered with success has one task in a queue of the scheduler, for "stop" a
\* Stop in the emergency queue, and one that was answered with an error has none: whatever was
\* registered, started or stopped between the routing, the check that the scheduler runs, the push
\* and the answer (business_logic.go:43-65, scheduler.go:128-150).
AnswerTellsTheTask ==
    \A c \in Clients : \A m \in Messages(c), i \in DOMAIN ToClient(c) :
        LET made == {t \in tasks : t.req = m.id} IN
        ToClient(c)[i].req = m.id /\ MakesTask(m.command) =>
            IF ToClient(c)[i].status = "success" THEN \E t \in made : made = {t} /\ Fits(t.task, m.command) ELSE made = {}

\* When Stop has returned no connection is left open, the one that was being accepted while
\* Stop closed the others included.
StoppedIsClosed == stopPc = "done" => srvOpen = {} /\ \A c \in Clients : Accepted(c) => srv[c].closed

\* Stop comes to its end: no goroutine it waits for stays blocked (or the process panics).
StopEnds == (stopPc = "cancelled") ~> (stopPc = "done" \/ crashed)
=============================================================================
