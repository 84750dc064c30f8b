------------------------------ MODULE EventLoop ------------------------------
(***************************************************************************)
(* core/eventloop.go: the event queue, the goroutine that empties it, and  *)
(* the goroutines it starts, one per handler and event.  The handler that  *)
(* acts here is the trigger's for a timer tick; the executor's for         *)
(* SystemStart and SystemStop are in CommandExecutor, the others only log. *)
(***************************************************************************)
EXTENDS Naturals, Sequences, FiniteSets

CONSTANTS EventBuffer,   \* the capacity of eventQueue (1000)
          MaxTicks       \* bound on the tick handlers in flight

ASSUME EventLoopAssumption == EventBuffer \in Nat \ {0} /\ MaxTicks \in Nat \ {0}

VARIABLES modules,      \* el.modules
          subscribed,   \* el.handlers: event -> modules
          eventQueue,
          el,           \* running, cancelled and the place of run
          ticks         \* the trigger's HandleEvent goroutines for a tick

elVars == <<modules, subscribed, eventQueue, el, ticks>>

Events == {"system_start", "system_stop", "timer_tick"}

Subscribes == [task_trigger     |-> {"system_start", "system_stop", "timer_tick"},
               task_scheduler   |-> {"system_start", "system_stop", "timer_tick"},
               command_executor |-> {"system_start", "system_stop", "timer_tick"}]

ELTypeOK ==
    /\ modules \subseteq DOMAIN Subscribes
    /\ subscribed \in [Events -> SUBSET DOMAIN Subscribes]
    /\ eventQueue \in Seq({"system_start", "system_stop"}) /\ Len(eventQueue) <= EventBuffer
    /\ el \in [running : BOOLEAN, cancelled : BOOLEAN, run : {"off", "on", "ended"}]
    /\ ticks \in 0..MaxTicks

ELInit ==
    /\ modules = {} /\ subscribed = [e \in Events |-> {}] /\ eventQueue = <<>>
    /\ el = [running |-> FALSE, cancelled |-> FALSE, run |-> "off"]
    /\ ticks = 0

\* RegisterModule with RegisterHandler, before Start; a name is registered once.
RegisterModule(m) ==
    /\ m \notin modules
    /\ modules' = modules \cup {m}
    /\ subscribed' = [e \in Events |-> IF e \in Subscribes[m] THEN subscribed[e] \cup {m} ELSE subscribed[e]]
    /\ UNCHANGED <<eventQueue, el, ticks>>

\* Bug for a mutant: the event is sent whether there is room or not.
EmitRegardless(event) == eventQueue' = Append(eventQueue, event)

\* EmitEvent while running: an event that finds the queue full is dropped.
Emit(event) ==
    eventQueue' = IF Len(eventQueue) < EventBuffer THEN Append(eventQueue, event) ELSE eventQueue

\* Start: SystemStart is emitted once the goroutine runs.
ELStart == /\ ~el.running
           /\ el' = [el EXCEPT !.running = TRUE, !.run = "on"]
           /\ Emit("system_start")
           /\ UNCHANGED <<modules, subscribed, ticks>>

\* handleEvent starts the handlers of the event.
Handle(event) ==
    ticks' = IF event = "timer_tick" /\ "task_trigger" \in subscribed[event] THEN ticks + 1 ELSE ticks

\* run: an event of the queue, ...
TakeEvent == /\ el.run = "on" /\ eventQueue # <<>>
             /\ eventQueue' = Tail(eventQueue) /\ Handle(Head(eventQueue))
             /\ UNCHANGED <<modules, subscribed, el>>

\* ... a tick of the timer, ...
Tick == /\ el.run = "on" /\ ticks < MaxTicks
        /\ Handle("timer_tick")
        /\ UNCHANGED <<modules, subscribed, eventQueue, el>>

\* ... or the end of the context, whatever the queue still holds.
LoopEnds == /\ el.run = "on" /\ el.cancelled
            /\ el' = [el EXCEPT !.run = "ended"]
            /\ UNCHANGED <<modules, subscribed, eventQueue, ticks>>

\* Stop, up to the modules: SystemStop is emitted, 10 ms later the context is cancelled.
ELStopEmit == /\ Emit("system_stop")
              /\ UNCHANGED <<modules, subscribed, el, ticks>>

Cancel == /\ el' = [el EXCEPT !.cancelled = TRUE]
          /\ UNCHANGED <<modules, subscribed, eventQueue, ticks>>

\* ... and after the modules: wg.Wait.
ELStopped == /\ el.run = "ended"
             /\ el' = [el EXCEPT !.running = FALSE]
             /\ UNCHANGED <<modules, subscribed, eventQueue, ticks>>
=============================================================================
