------------------------------- MODULE Control -------------------------------
(***************************************************************************)
(* cmd/control/main.go with management/infrastructure_manager.go,          *)
(* management/application_manager.go and application/task_orchestration.go:*)
(* how the program is put together, started and stopped, and how a task    *)
(* travels from a trigger or a client to the executor's queue.  The parts  *)
(* with a module of their own (scheduler, executor, HAL, IPC, hardware)    *)
(* are here a member of up: started and not yet stopped.                   *)
(***************************************************************************)
EXTENDS ConfigManager, TaskTrigger, EventLoop, BusinessCommands

CONSTANTS Requests,   \* the business commands clients send
          MaxStarts   \* bound on the times the program is started

ASSUME ControlAssumption == Requests \subseteq BusinessCommand /\ MaxStarts \in Nat \ {0}

VARIABLES main,     \* where main is
          step,     \* the next step of Start, then of Stop
          up,       \* the parts that run
          left,     \* the modules EventLoop.Stop has still to stop
          pushed,   \* the commands given to the executor's queue, with their tasks
          starts,
          scene     \* bound: what the environment does in this behaviour, see Scenes

ctlVars == <<main, step, up, left, pushed, starts, scene>>
vars == <<cfgVars, trigVars, elVars, ctlVars>>

\* setupEventHandlers, InfrastructureManager.Start, SetupDependencies, ApplicationManager.Start,
\* EventLoop.Start and setupConfigWatcher, in the order of MotionControlSystem.Start.
StartOrder == <<"task_trigger", "task_scheduler", "command_executor", "deviceManager", "ipcServer", "watcher",
                "dependencies", "hal", "coordination", "trigger", "scheduler", "channels", "eventLoop", "configWatch">>

\* MotionControlSystem.Stop: the context, EventLoop.Stop, ApplicationManager.Stop and
\* InfrastructureManager.Stop.  DeviceManager.Stop is the last step, see Stop.
StopOrder == <<"cancel", "emit", "modules", "loop", "trigger", "scheduler", "coordination", "hal",
               "ipcServer", "deviceManager">>

\* A behaviour has either edits of the files and callers of the configuration manager, or triggers
\* and requests: the two share no state but the life cycle.  The first kind may be restarted, its
\* edits and callers wait while Start and Stop run, and it is shut down only before its first edit;
\* the second begins with a file that loads and changes its triggers while the program runs; ticks
\* with no source enabled are left out.
Scenes == {"configuration", "tasks"}

Parts == {"deviceManager", "ipcServer", "dependencies", "hal", "coordination", "scheduler", "channels"}

TypeOK ==
    /\ CfgTypeOK /\ TrigTypeOK /\ ELTypeOK
    /\ main \in {"boot1", "boot2", "start", "running", "stopping", "exited", "fatal", "hung"}
    /\ step \in 1..Len(StartOrder) /\ (main = "stopping" => step <= Len(StopOrder))
    /\ up \subseteq Parts
    /\ left \subseteq modules
    /\ pushed \in Seq([task : 1..Len(tasks), cmd : Command])
    /\ starts \in 1..MaxStarts /\ scene \in Scenes

Init ==
    /\ CfgInit /\ TrigInit /\ ELInit
    /\ main = "boot1" /\ step = 1 /\ up = {} /\ left = {} /\ pushed = <<>> /\ starts = 1
    /\ scene \in Scenes /\ (scene = "tasks" => files["main"].there /\ ~files["other"].there)

Alive == crash = "no" /\ main \notin {"exited", "fatal", "hung"}

(* Construction: NewMotionControlSystem. *)

\* LoadConfig, first by main's own ConfigManager, then by the one of the infrastructure.
Boot ==
    /\ main \in {"boot1", "boot2"} /\ Loadable(path)
    /\ main' = IF main = "boot1" THEN "boot2" ELSE "start"
    /\ config' = IF main = "boot2" THEN [version |-> files[path].version, from |-> path] ELSE config
    /\ newer' = IF main = "boot2" THEN [p \in Paths |-> FALSE] ELSE newer
    /\ UNCHANGED <<files, path, lock, pc, arg, got, version, trigVars, elVars, step, up, left, pushed, starts, scene>>

\* A file that cannot be loaded, missing or broken, is replaced by CreateDefaultConfig, whose
\* SetConfig then waits for itself; when it cannot be written main gives up.
BootDefault ==
    /\ main \in {"boot1", "boot2"} /\ ~Loadable(path)
    /\ \/ /\ main' = "hung" /\ version < MaxVersion
          /\ version' = version + 1
          /\ files' = [files EXCEPT ![path] = Good(version + 1)]
       \/ main' = "fatal" /\ UNCHANGED <<files, version>>
    /\ UNCHANGED <<newer, path, config, lock, pc, arg, got, trigVars, elVars, step, up, left, pushed, starts, scene>>

\* External: a program that gave up or hangs is started again.
Restart ==
    /\ main \in {"hung", "fatal"} /\ starts < MaxStarts /\ scene = "configuration"
    /\ main' = "boot1" /\ step' = 1 /\ up' = {} /\ starts' = starts + 1
    /\ modules' = {} /\ subscribed' = [e \in Events |-> {}] /\ config' = Unread
    /\ UNCHANGED <<files, newer, path, lock, pc, arg, got, version, trigVars, eventQueue, el, ticks, left, pushed, scene>>

(* MotionControlSystem.Start *)

AtStart(s) == main = "start" /\ StartOrder[step] = s
StartNext == step' = step + 1 /\ UNCHANGED <<main, left, pushed, starts, scene>>

RegisterStep(m) == AtStart(m) /\ StartNext /\ RegisterModule(m) /\ UNCHANGED <<cfgVars, trigVars, up>>

\* The parts whose Start cannot fail here; coordination is the queue and the executor.
StartPart(s) == /\ AtStart(s) /\ StartNext /\ up' = up \cup {s}
                /\ UNCHANGED <<cfgVars, trigVars, elVars>>

\* The port of the IPC server may be taken: log.Fatalf.
StartFails == /\ AtStart("ipcServer") /\ main' = "fatal"
              /\ UNCHANGED <<cfgVars, trigVars, elVars, step, up, left, pushed, starts, scene>>

\* StartWatching; from here on the manager is also open to callers.
StartWatching == /\ AtStart("watcher") /\ StartNext
                 /\ pc' = [a \in Actors |-> "idle"]
                 /\ UNCHANGED <<files, newer, path, config, lock, arg, got, version, trigVars, elVars, up>>

StartTrigger == AtStart("trigger") /\ StartNext /\ TrigStart /\ UNCHANGED <<cfgVars, elVars, up>>

StartLoop == AtStart("eventLoop") /\ StartNext /\ ELStart /\ UNCHANGED <<cfgVars, trigVars, up>>

Started == /\ AtStart("configWatch") /\ main' = "running"
           /\ UNCHANGED <<cfgVars, trigVars, elVars, step, up, left, pushed, starts, scene>>

Start == \/ \E m \in DOMAIN Subscribes : RegisterStep(m)
         \/ \E s \in Parts : StartPart(s)
         \/ StartFails \/ StartWatching \/ StartTrigger \/ StartLoop \/ Started

(* MotionControlSystem.Stop, in a goroutine of its own *)

Signal == /\ main = "running" /\ (scene = "configuration" => version = 0 /\ pc["caller"] = "idle")
          /\ main' = "stopping" /\ step' = 1
          /\ UNCHANGED <<cfgVars, trigVars, elVars, up, left, pushed, starts, scene>>

AtStop(s) == main = "stopping" /\ StopOrder[step] = s
StopNext == step' = step + 1 /\ UNCHANGED <<main, pushed, starts, scene>>

\* mcs.cancel: every context is derived from this one.
StopCancel == /\ AtStop("cancel") /\ StopNext /\ Cancel
              /\ trig' = [trig EXCEPT !.cancelled = TRUE]
              /\ UNCHANGED <<cfgVars, enabled, taskChan, tasks, crash, up, left>>

StopEmit == /\ AtStop("emit") /\ StopNext /\ ELStopEmit /\ left' = modules
            /\ UNCHANGED <<cfgVars, trigVars, up>>

\* The modules in the order the map yields them, each stopped before the next.
StopTriggerModule == /\ AtStop("modules") /\ "task_trigger" \in left /\ ~trig.closed
                     /\ TrigStop
                     /\ UNCHANGED <<cfgVars, elVars, ctlVars>>

TriggerModuleStopped == /\ AtStop("modules") /\ "task_trigger" \in left /\ trig.closed
                        /\ TrigStopped /\ left' = left \ {"task_trigger"}
                        /\ UNCHANGED <<cfgVars, elVars, main, step, up, pushed, starts, scene>>

StopModule(m, part) == /\ AtStop("modules") /\ m \in left
                       /\ ~("task_trigger" \in left /\ trig.closed)
                       /\ left' = left \ {m} /\ up' = up \ {part}
                       /\ UNCHANGED <<cfgVars, trigVars, elVars, main, step, pushed, starts, scene>>

ModulesStopped == /\ AtStop("modules") /\ left = {} /\ StopNext
                  /\ UNCHANGED <<cfgVars, trigVars, elVars, up, left>>

StopLoop == AtStop("loop") /\ StopNext /\ ELStopped /\ UNCHANGED <<cfgVars, trigVars, up, left>>

\* ApplicationManager.Stop stops the trigger, the scheduler and the executor a second time.
StopTrigger == AtStop("trigger") /\ StopNext /\ TrigStop /\ UNCHANGED <<cfgVars, elVars, up, left>>

StopPart(s) == /\ AtStop(s) /\ StopNext /\ up' = up \ {s}
               /\ UNCHANGED <<cfgVars, trigVars, elVars, left>>

\* There is no step for deviceManager: devices.DeviceManager.Stop waits for itself when the automatic
\* scan is on (HardwareManager, StopDevices), HardwareFactory.Start turns it on, and nothing after
\* it, StopWatching and running = false, is ever reached.
Stop == \/ StopCancel \/ StopEmit \/ StopTriggerModule \/ TriggerModuleStopped
        \/ StopModule("task_scheduler", "scheduler") \/ StopModule("command_executor", "coordination")
        \/ ModulesStopped \/ StopLoop \/ StopTrigger
        \/ \E s \in {"scheduler", "coordination", "hal", "ipcServer"} : StopPart(s)

\* main waits for Stop to return or for 10 seconds, and Stop does not return.  What the process had
\* in memory is gone.
Exit == /\ main = "stopping" /\ main' = "exited"
        /\ step' = 1 /\ up' = {} /\ left' = {} /\ pushed' = <<>>
        /\ enabled' = FALSE /\ taskChan' = <<>> /\ tasks' = <<>> /\ modules' = {} /\ eventQueue' = <<>> /\ ticks' = 0
        /\ trig' = [running |-> FALSE, cancelled |-> FALSE, closed |-> FALSE, run |-> "off"]
        /\ el' = [running |-> FALSE, cancelled |-> FALSE, run |-> "off"]
        /\ subscribed' = [e \in Events |-> {}]
        /\ UNCHANGED <<cfgVars, crash, starts, scene>>

\* watchFile leaves when its context is done.
WatcherEnds == /\ main = "stopping" /\ step > 1 /\ pc["watcher"] = "idle" /\ Goto("watcher", "off")
               /\ UNCHANGED <<files, newer, path, config, lock, arg, got, version>>

(* Tasks *)

\* HandleEvent of the trigger, in a goroutine that nobody waits for.
TriggerTick == /\ ticks > 0 /\ ticks' = ticks - 1 /\ TimerCheck
               /\ UNCHANGED <<cfgVars, modules, subscribed, eventQueue, el, ctlVars>>

\* ExecuteBusinessCommand for a client's request: a task with parameters and without axes.
ExecuteBusinessCommand(cmd) ==
    /\ {"ipcServer", "dependencies", "scheduler"} \subseteq up
    /\ MakesTask(cmd) /\ Len(tasks) < MaxTasks
    /\ tasks' = Append(tasks, [type |-> TaskOf(cmd).type, axes |-> <<>>, root |-> <<>>, origin |-> "business",
                               id |-> Len(tasks) + 1, at |-> "scheduler"])
    /\ UNCHANGED <<cfgVars, enabled, taskChan, trig, crash, elVars, ctlVars>>

\* The goroutines of the two setupTaskChannels, of ApplicationManager and TaskOrchestrationLayer.
Receivers == (IF "dependencies" \in up THEN {"manager"} ELSE {}) \cup
             (IF "channels" \in up THEN {"orchestration"} ELSE {})

\* Either of them takes a task from the trigger's channel and hands it to ScheduleTask.
ScheduleTriggered ==
    /\ Receivers # {} /\ taskChan # <<>>
    /\ taskChan' = Tail(taskChan)
    /\ tasks' = [tasks EXCEPT ![Head(taskChan)].at = IF "scheduler" \in up THEN "scheduler" ELSE "refused"]
    /\ UNCHANGED <<cfgVars, enabled, trig, crash, elVars, ctlVars>>

\* What processTask of receiver r hands to the executor: the orchestration's goes through the HAL,
\* whose device table is empty, and stops there; the application manager's pushes the commands.
Executed(r, t, commands) ==
    IF r = "manager" /\ "coordination" \in up
    THEN [i \in 1..Len(commands) |-> [task |-> t, cmd |-> commands[i]]] ELSE <<>>

\* Either of them takes a scheduled task from the scheduler's channel and runs its processTask.
ProcessTask(r, t) ==
    LET made == DecomposeTask(tasks[t]) IN
    /\ r \in Receivers /\ tasks[t].at = "scheduler"
    /\ tasks' = [tasks EXCEPT ![t].at = "done"]
    /\ crash' = IF made.kind = "panic" THEN "decompose" ELSE crash
    /\ pushed' = pushed \o Executed(r, t, made.commands)
    /\ UNCHANGED <<cfgVars, enabled, taskChan, trig, elVars, main, step, up, left, starts, scene>>

Next ==
    \/ Restart
    \/ /\ Alive
       /\ \/ Boot \/ BootDefault \/ Start \/ Signal \/ Stop \/ Exit
          \/ /\ scene = "configuration"
             /\ (main \notin {"start", "stopping"} /\ CfgNext) \/ WatcherEnds
             /\ UNCHANGED <<trigVars, elVars, ctlVars>>
          \/ (TakeEvent \/ LoopEnds) /\ UNCHANGED <<cfgVars, trigVars, ctlVars>>
          \/ scene = "tasks" /\ enabled /\ Tick /\ UNCHANGED <<cfgVars, trigVars, ctlVars>>
          \/ scene = "tasks" /\ main = "running" /\ ChangeTrigger /\ UNCHANGED <<cfgVars, elVars, ctlVars>>
          \/ (RunLoop \/ RunCheck) /\ UNCHANGED <<cfgVars, elVars, ctlVars>>
          \/ TriggerTick \/ ScheduleTriggered
          \/ scene = "tasks" /\ \E cmd \in Requests : ExecuteBusinessCommand(cmd)
          \/ \E t \in DOMAIN tasks, r \in Receivers : ProcessTask(r, t)

\* The goroutines inside the configuration manager are scheduled, and so are the goroutine that
\* runs Stop, the event loop's and the trigger's.  Nothing is assumed of main's 10 seconds (Exit).
Fairness ==
    /\ WF_vars(Alive /\ (CheckFileChanges \/ Inside) /\ UNCHANGED <<trigVars, elVars, ctlVars>>)
    /\ WF_vars(Alive /\ Stop)
    /\ WF_vars(Alive /\ LoopEnds /\ UNCHANGED <<cfgVars, trigVars, ctlVars>>)
    /\ WF_vars(Alive /\ (RunLoop \/ RunCheck) /\ UNCHANGED <<cfgVars, elVars, ctlVars>>)

Spec == Init /\ [][Next]_vars
FairSpec == Spec /\ Fairness

-----------------------------------------------------------------------------
\* The trigger is stopped by the event loop and again by the application manager, and is asked for
\* tasks by two goroutines, one of which no Stop waits for: its channel is never closed twice, and
\* a send on the closed channel (trigger.go:282) brings the program down only during a shutdown.
PanicOnlyAfterClose == /\ crash # "close"
                       /\ crash = "send" => main = "stopping" /\ trig.closed

\* LoadConfig reads and stores under one lock: whoever loads, saves or updates at the same time,
\* and whichever file they read, a configuration that came from a file is never replaced in memory
\* by an older one of the same file while the program runs (manager.go:45).  The exception is
\* ImportConfig (manager.go:491), which saves a copy that may be stale by then.
ConfigNeverGoesBack ==
    [][main \notin {"hung", "fatal"} /\ config'.from = config.from
         => config'.version >= config.version \/ SaveImported("caller")]_vars

\* Hot reload (manager.go:165): what is saved to the file that cm.configPath names, while nobody is
\* between reading a file and storing what was read, is in memory in the end, it or something later,
\* while the program runs, the path is not redirected (by a LoadConfig or an ImportConfig, even one
\* that fails, manager.go:42, or by a Reload that read the path before them), the file stays
\* loadable and no writer of the configuration hangs with the lock (manager.go:99).
HotReload ==
    \A p \in Paths, v \in 1..MaxVersion :
        (/\ main = "running" /\ crash = "no" /\ \A a \in Actors : pc[a] # "store"
         /\ path = p /\ newer[p] /\ Loadable(p) /\ files[p].version = v)
            ~> (\/ config.from = p /\ config.version >= v
                \/ path # p \/ ~Loadable(p) \/ pc["caller"] = "hung" \/ main # "running" \/ crash # "no")

\* In whichever order EventLoop.Stop meets its modules (eventloop.go:93), and whatever the trigger
\* and the event loop are doing, their WaitGroups come free and Stop gets as far as the device
\* manager, unless the 10 seconds of main pass first or a late handler panics.
ShutdownProgress ==
    main = "stopping" ~> (AtStop("deviceManager") \/ main = "exited" \/ crash # "no")

\* The queue finds a command by its ID: two commands of tasks that have a name and no tree never
\* share one, though either of two goroutines decomposes and pushes them (tasknode_decomposer.go:55).
NamedIdsDistinct ==
    \A i, j \in DOMAIN pushed :
        (i # j /\ \A k \in {i, j} : tasks[pushed[k].task].id # 0 /\ tasks[pushed[k].task].root = <<>>)
            => pushed[i].cmd.id # pushed[j].cmd.id

\* "HomeSystem homes all axes" (business_logic.go:147), and an emergency stop stops them: once the
\* task is processed, the executor has a command for the device of every axis.
HomeReachesAxes ==
    \A t \in DOMAIN tasks :
        tasks[t].origin = "business" /\ tasks[t].type \in {"Home", "Stop"} /\ tasks[t].at = "done"
            => \A a \in Axes : \E i \in DOMAIN pushed :
                   pushed[i].task = t /\ pushed[i].cmd.device = AxisDevice[a]
=============================================================================
