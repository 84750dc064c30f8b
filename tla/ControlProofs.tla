---------------------------- MODULE ControlProofs ----------------------------
(***************************************************************************)
(* Proofs about the control program, for any number of versions, tasks,    *)
(* axes and ticks and whatever a task tree is decomposed into: its         *)
(* configuration never goes back, it panics only while it is shut down,    *)
(* and commands are told apart by their IDs.                               *)
(***************************************************************************)
EXTENDS Control, SequenceLemmas

\* The lock protects the configuration between reading a file and storing what was read, and
\* stays with whoever waits for itself; while it is free no file is behind what came from it.
ConfigInv ==
    /\ config.version <= version /\ \A p \in Paths : files[p].version <= version
    /\ lock = "free" => config.version <= files[config.from].version
    /\ \A a \in Actors : /\ pc[a] \in {"store", "hung"} <=> lock = a
                         /\ got[a].version <= version
                         /\ pc[a] = "store" => /\ got[a].version <= files[got[a].from].version
                                               /\ got[a].from = config.from => config.version <= got[a].version

\* Until StartWatching nobody is inside the configuration manager.
BootInv ==
    /\ main \in {"boot1", "boot2"} => config = Unread
    /\ (main \in {"boot1", "boot2", "hung", "fatal"} \/ (main = "start" /\ step <= 6))
           => \A a \in Actors : pc[a] = "off"

\* The trigger is closed by EventLoop.Stop or by ApplicationManager.Stop, whichever finds it
\* running, and the second of them finds it stopped.
ShutdownInv ==
    /\ main # "stopping" => left = {}
    /\ trig.closed => main = "stopping" /\ step >= 3
    /\ trig.closed /\ trig.running => (step = 3 /\ "task_trigger" \in left) \/ step > 5

\* The channel holds tasks that wait in it, each once, and the executor's queue commands of tasks
\* that were processed, named after them.
TaskInv ==
    /\ Distinct(taskChan)
    /\ \A i \in 1..Len(taskChan) : tasks[taskChan[i]].at = "chan"
    /\ \A i \in 1..Len(pushed) :
          LET t == pushed[i].task IN
          tasks[t].at = "done" /\ (tasks[t].root = <<>> => pushed[i].cmd.id.of = tasks[t].id)

IInv ==
    /\ TypeOK /\ ConfigInv /\ BootInv /\ ShutdownInv /\ PanicOnlyAfterClose
    /\ TaskInv /\ NamedIdsDistinct

-----------------------------------------------------------------------------
(* The configuration *)

\* Where Start and Stop are at some of their steps.
LEMMA StartPlaces ==
  ASSUME NEW s, AtStart(s), step \in 1..Len(StartOrder)
  PROVE  /\ main = "start" /\ step \in 1..14
         /\ s # "configWatch" => step + 1 \in 1..14
         /\ s = "watcher" => step = 6
         /\ s = "ipcServer" => step = 5
<1>1. Len(StartOrder) = 14
  BY DEF StartOrder
<1> QED  BY <1>1 DEF AtStart, StartOrder

LEMMA StopPlaces ==
  ASSUME NEW s, AtStop(s), step \in 1..10
  PROVE  /\ main = "stopping"
         /\ s # "deviceManager" => step + 1 \in 1..10
         /\ s = "cancel" => step = 1
         /\ s = "emit" => step = 2
         /\ s = "modules" <=> step = 3
         /\ s = "trigger" <=> step = 5
  BY DEF AtStop, StopOrder

\* What ConfigNeverGoesBack asks of a step.
Forward == config'.from = config.from => config'.version >= config.version \/ SaveImported("caller")

LEMMA ConfigRecords ==
  /\ Unread \in Config /\ Unread.version = 0 /\ Unread.from = "main"
  /\ \A v \in 0..MaxVersion : Good(v) \in File /\ Good(v).version = v
  /\ \A valid \in BOOLEAN, v \in 0..MaxVersion :
        LET f == [there |-> TRUE, valid |-> valid, version |-> v] IN f \in File /\ f.version = v
  /\ \A v \in 0..MaxVersion, p \in Paths :
        LET c == [version |-> v, from |-> p] IN c \in Config /\ c.version = v /\ c.from = p
  BY MaxVersionAssumption DEF Unread, Config, Good, File, Paths

\* The fields of what is there.
LEMMA ConfigFields ==
  ASSUME CfgTypeOK
  PROVE  /\ config.version \in 0..MaxVersion /\ config.from \in Paths
         /\ \A p \in Paths : files[p] \in File /\ files[p].version \in 0..MaxVersion
         /\ \A a \in Actors : got[a] \in Config /\ got[a].version \in 0..MaxVersion /\ got[a].from \in Paths
  BY DEF CfgTypeOK, Config, File

\* The configuration manager keeps its invariant, whoever loads, saves or updates.
LEMMA ConfigStep ==
  ASSUME CfgTypeOK, ConfigInv, CfgNext
  PROVE  CfgTypeOK' /\ ConfigInv' /\ Forward
<1> USE MaxVersionAssumption
<1> DEFINE Places == {"off", "idle", "reload", "redirect", "load", "store", "notify", "set", "copy", "save", "hung"}
<1>0. /\ version \in 0..MaxVersion /\ (version < MaxVersion => version + 1 \in 0..MaxVersion)
      /\ \A p \in Paths : files[p].version \in Nat /\ files[p].version <= version
      /\ config.version \in Nat /\ config.version <= version /\ config.from \in Paths /\ path \in Paths
      /\ "caller" \in Actors /\ "watcher" \in Actors /\ "main" \in Paths
      /\ Unread \in Config /\ Unread.version <= version
  BY ConfigFields, ConfigRecords DEF CfgTypeOK, ConfigInv, Actors, Paths
<1>1. ASSUME NEW p \in Paths, NEW valid \in BOOLEAN, Edit(p, valid) PROVE CfgTypeOK' /\ ConfigInv' /\ Forward
  <2>1. PICK f \in File : files' = [files EXCEPT ![p] = f] /\ f.version = version + 1
    BY <1>0, <1>1, ConfigRecords DEF Edit
  <2>2. /\ newer' = [newer EXCEPT ![p] = TRUE] /\ version' = version + 1 /\ version < MaxVersion
        /\ UNCHANGED <<path, config, lock, pc, arg, got>>
    BY <1>1 DEF Edit
  <2>3. CfgTypeOK' /\ Forward
    BY <1>0, <2>1, <2>2 DEF CfgTypeOK, Forward
  <2>4. \A q \in Paths : /\ files'[q].version = IF q = p THEN version + 1 ELSE files[q].version
                         /\ files[q].version <= files'[q].version /\ files'[q].version <= version + 1
    BY <1>0, <2>1 DEF CfgTypeOK
  <2>5. config'.version <= version' /\ \A q \in Paths : files'[q].version <= version'
    BY <1>0, <2>2, <2>4
  <2>6. lock' = "free" => config'.version <= files'[config'.from].version
    <3>1. config.version <= files[config.from].version /\ files[config.from].version <= files'[config.from].version
          => config.version <= files'[config.from].version
      BY <1>0, <2>4
    <3> QED  BY <1>0, <2>2, <2>4, <3>1 DEF ConfigInv
  <2>7. ASSUME NEW a \in Actors
        PROVE  /\ pc'[a] \in {"store", "hung"} <=> lock' = a
               /\ got'[a].version <= version'
               /\ pc'[a] = "store" => /\ got'[a].version <= files'[got'[a].from].version
                                      /\ got'[a].from = config'.from => config'.version <= got'[a].version
    <3>1. got[a].version \in Nat /\ got[a].from \in Paths
      BY ConfigFields
    <3>2. files[got[a].from].version <= files'[got[a].from].version
      BY <2>4, <3>1
    <3>3. got[a].version <= files[got[a].from].version => got[a].version <= files'[got[a].from].version
      BY <1>0, <2>4, <3>1, <3>2
    <3>4. got[a].version <= version /\ got[a].version <= version + 1
      BY <1>0, <3>1 DEF ConfigInv
    <3> QED  BY <2>2, <3>3, <3>4 DEF ConfigInv
  <2> QED  BY <2>3, <2>5, <2>6, <2>7 DEF ConfigInv
\* Steps that leave the configuration, the lock, the files and the versions alone.
<1>2. ASSUME UNCHANGED <<files, config, lock, version>>, CfgTypeOK',
             NEW b \in Actors, NEW l \in Places \ {"store", "hung"}, pc' = [pc EXCEPT ![b] = l],
             pc[b] \notin {"store", "hung"},
             NEW g \in Config, got' = got \/ got' = [got EXCEPT ![b] = g], g.version <= version
      PROVE  ConfigInv' /\ Forward
  <2>1. Forward
    BY <1>0, <1>2 DEF Forward
  <2>2. ASSUME NEW a \in Actors
        PROVE  /\ pc'[a] \in {"store", "hung"} <=> lock = a
               /\ got'[a].version <= version
               /\ pc'[a] = "store" => pc[a] = "store" /\ got'[a] = got[a]
    BY <1>2 DEF ConfigInv, CfgTypeOK
  <2> QED  BY <1>2, <2>1, <2>2 DEF ConfigInv
<1>3. ASSUME NEW a \in Actors, Reload(a) \/ Redirect(a) PROVE CfgTypeOK' /\ ConfigInv' /\ Forward
  <2>1. PICK l \in {"redirect", "load"} : pc' = [pc EXCEPT ![a] = l] /\ pc[a] \in {"reload", "redirect"}
    BY <1>3 DEF Reload, Redirect, Goto
  <2>2. /\ UNCHANGED <<files, newer, config, lock, got, version>> /\ path' \in Paths
        /\ arg' = [arg EXCEPT ![a] = path] \/ arg' = [arg EXCEPT ![a] = "main"]
    BY <1>0, <1>3 DEF Reload, Redirect, CfgTypeOK
  <2>3. CfgTypeOK'
    BY <1>0, <2>1, <2>2 DEF CfgTypeOK
  <2> QED  BY <1>0, <1>2, <2>1, <2>2, <2>3
<1>4. ASSUME NEW a \in Actors, LoadRead(a) PROVE CfgTypeOK' /\ ConfigInv' /\ Forward
  <2> DEFINE c == [version |-> files[path].version, from |-> path]
  <2>1. c \in Config /\ c.version = files[path].version /\ c.from = path
    BY <1>0, ConfigFields, ConfigRecords
  <2> HIDE DEF c
  <2>2. pc[a] = "load" /\ lock = "free" /\ UNCHANGED <<files, newer, path, config, arg, version>>
    BY <1>4 DEF LoadRead
  <2>3. CASE lock' = lock /\ got' = got /\ pc' = [pc EXCEPT ![a] = "idle"]
    <3>1. CfgTypeOK'
      BY <2>2, <2>3 DEF CfgTypeOK
    <3> QED  BY <1>0, <1>2, <2>2, <2>3, <3>1
  <2>4. CASE lock' = a /\ pc' = [pc EXCEPT ![a] = "store"] /\ got' = [got EXCEPT ![a] = c]
    <3>1. CfgTypeOK' /\ Forward
      BY <1>0, <2>1, <2>2, <2>4 DEF CfgTypeOK, Forward
    <3>2. got'[a] = c /\ pc'[a] = "store" /\ \A b \in Actors \ {a} : got'[b] = got[b] /\ pc'[b] = pc[b] /\ pc[b] \notin {"store", "hung"}
      BY <2>2, <2>4 DEF CfgTypeOK, ConfigInv, Actors
    <3>3. c.from = config.from => config.version <= c.version
      BY <2>1, <2>2 DEF ConfigInv
    <3>4. c.version <= version /\ c.version <= files[c.from].version
      BY <1>0, <2>1
    <3> QED  BY <2>2, <2>4, <3>1, <3>2, <3>3, <3>4 DEF ConfigInv, Actors
  <2> QED  BY <1>4, <2>3, <2>4 DEF LoadRead, Goto, c
<1>5. ASSUME NEW a \in Actors, LoadStore(a) PROVE CfgTypeOK' /\ ConfigInv' /\ Forward
  <2>1. /\ config' = got[a] /\ newer' = [p \in Paths |-> FALSE] /\ lock' = "free" /\ got' = [got EXCEPT ![a] = Unread]
        /\ UNCHANGED <<files, path, arg, version>> /\ pc[a] = "store" /\ lock = a
        /\ \E l \in {"notify", "idle", "copy"} : pc' = [pc EXCEPT ![a] = l]
    BY <1>5 DEF LoadStore, Goto, ConfigInv
  <2>2. CfgTypeOK'
    BY <2>1, ConfigRecords, ConfigFields DEF CfgTypeOK
  <2>3. Forward
    BY <2>1, ConfigFields DEF Forward, ConfigInv
  <2>4. \A b \in Actors : pc'[b] \notin {"store", "hung"} /\ b # "free"
    BY <2>1 DEF CfgTypeOK, ConfigInv, Actors
  <2>5. \A b \in Actors : got'[b].version <= version
    BY <1>0, <2>1, ConfigRecords DEF CfgTypeOK, ConfigInv
  <2>6. config'.version <= version' /\ config'.version <= files'[config'.from].version
    BY <2>1 DEF ConfigInv
  <2> QED  BY <1>0, <2>1, <2>2, <2>3, <2>4, <2>5, <2>6 DEF ConfigInv
<1>6. ASSUME NEW a \in Actors, CopyConfig(a) PROVE CfgTypeOK' /\ ConfigInv' /\ Forward
  <2>1. CfgTypeOK'
    BY <1>6 DEF CopyConfig, Goto, CfgTypeOK
  <2>2. config \in Config
    BY DEF CfgTypeOK
  <2> QED  BY <1>0, <1>2, <1>6, <2>1, <2>2 DEF CopyConfig, Goto
<1>7. ASSUME SetFails("caller") PROVE CfgTypeOK' /\ ConfigInv' /\ Forward
  <2>1. CfgTypeOK'
    BY <1>7, ConfigRecords DEF SetFails, Goto, CfgTypeOK
  <2> QED  BY <1>0, <1>2, <1>7, <2>1 DEF SetFails, Goto
<1>8. ASSUME NEW v \in 0..MaxVersion, Save("caller", v), version' \in 0..MaxVersion, v <= version', version <= version',
             pc["caller"] \in {"set", "save"}
      PROVE  CfgTypeOK' /\ ConfigInv'
  <2>1. /\ config' = [version |-> v, from |-> path] /\ newer' = [p \in Paths |-> FALSE] /\ lock' = "caller"
        /\ lock = "free" /\ got' = [got EXCEPT !["caller"] = Unread] /\ UNCHANGED <<path, arg>>
        /\ files' = [files EXCEPT ![path] = Good(v)] /\ pc' = [pc EXCEPT !["caller"] = "hung"]
    BY <1>8 DEF Save, Goto
  <2>2. CfgTypeOK'
    BY <1>0, <1>8, <2>1, ConfigRecords DEF CfgTypeOK
  <2>3. config'.version = v /\ config'.from = path
    BY <1>0, <2>1, ConfigRecords
  <2>4. ASSUME NEW p \in Paths PROVE files'[p].version <= version'
    <3>1. files[p].version <= version'
      BY <1>0, <1>8
    <3>2. files'[p] = IF p = path THEN Good(v) ELSE files[p]
      BY <2>1 DEF CfgTypeOK
    <3> QED  BY <1>8, <3>1, <3>2, ConfigRecords
  <2>5. ASSUME NEW b \in Actors PROVE got'[b].version <= version'
    <3>1. got[b].version <= version'
      BY <1>0, <1>8, ConfigFields DEF ConfigInv
    <3>2. got'[b] = IF b = "caller" THEN Unread ELSE got[b]
      BY <2>1 DEF CfgTypeOK
    <3> QED  BY <1>8, <3>1, <3>2, ConfigRecords
  <2>6. pc'["caller"] = "hung" /\ pc'["watcher"] \notin {"store", "hung"}
    BY <2>1 DEF CfgTypeOK, ConfigInv, Actors
  <2>7. \A b \in Actors : (pc'[b] \in {"store", "hung"} <=> lock' = b) /\ pc'[b] # "store"
    BY <2>1, <2>6 DEF Actors
  <2> QED  BY <1>8, <2>1, <2>2, <2>3, <2>4, <2>5, <2>7 DEF ConfigInv
<1>9. ASSUME SetConfig("caller") PROVE CfgTypeOK' /\ ConfigInv' /\ Forward
  <2>1. CfgTypeOK' /\ ConfigInv'
    BY <1>0, <1>8, <1>9 DEF SetConfig
  <2>2. config'.version = version + 1
    BY <1>0, <1>9, ConfigRecords DEF SetConfig, Save
  <2> QED  BY <1>0, <2>1, <2>2 DEF Forward
<1>10. ASSUME SaveImported("caller") PROVE CfgTypeOK' /\ ConfigInv' /\ Forward
  <2>1. got["caller"].version \in 0..MaxVersion /\ got["caller"].version <= version
    BY <1>0, ConfigFields DEF ConfigInv
  <2> QED  BY <1>0, <1>8, <1>10, <2>1 DEF SaveImported, Forward
<1>11. ASSUME UpdateInPlace("caller") PROVE CfgTypeOK' /\ ConfigInv' /\ Forward
  <2>1. /\ version' = version + 1 /\ version < MaxVersion /\ config' = [config EXCEPT !.version = version + 1]
        /\ lock' = "caller" /\ lock = "free" /\ pc' = [pc EXCEPT !["caller"] = "hung"] /\ UNCHANGED <<files, newer, path, arg, got>>
    BY <1>11 DEF UpdateInPlace, Goto
  <2>2. config' \in Config /\ config'.version = version + 1 /\ config'.from = config.from
    BY <1>0, <2>1 DEF CfgTypeOK, Config
  <2>3. CfgTypeOK' /\ Forward
    BY <1>0, <2>1, <2>2 DEF CfgTypeOK, Forward
  <2>4. pc'["caller"] = "hung" /\ pc'["watcher"] \notin {"store", "hung"}
    BY <2>1 DEF CfgTypeOK, ConfigInv, Actors
  <2>5. \A b \in Actors : (pc'[b] \in {"store", "hung"} <=> lock' = b) /\ pc'[b] # "store"
    BY <2>1, <2>4 DEF Actors
  <2>6. ASSUME NEW b \in Actors PROVE got'[b].version <= version'
    BY <1>0, <2>1, ConfigFields DEF ConfigInv
  <2>7. ASSUME NEW p \in Paths PROVE files'[p].version <= version'
    BY <1>0, <2>1
  <2> QED  BY <1>0, <2>1, <2>2, <2>3, <2>5, <2>6, <2>7 DEF ConfigInv
<1>12. ASSUME CheckFileChanges \/ NotifyWatchers \/ CallerEnters
      PROVE  CfgTypeOK' /\ ConfigInv' /\ Forward
  <2>1. PICK b \in Actors, l \in {"reload", "idle", "set", "redirect"} :
            pc' = [pc EXCEPT ![b] = l] /\ pc[b] \in {"idle", "notify"}
    BY <1>0, <1>12 DEF CheckFileChanges, NotifyWatchers, CallerEnters, Goto
  <2>2. /\ UNCHANGED <<files, newer, path, config, lock, got, version>>
        /\ arg' = arg \/ \E p \in Paths : arg' = [arg EXCEPT !["caller"] = p]
    BY <1>12 DEF CheckFileChanges, NotifyWatchers, CallerEnters
  <2>3. CfgTypeOK'
    BY <1>0, <2>1, <2>2 DEF CfgTypeOK
  <2> QED  BY <1>0, <1>2, <2>1, <2>2, <2>3
<1> QED  BY <1>1, <1>3, <1>4, <1>5, <1>6, <1>7, <1>9, <1>10, <1>11, <1>12 DEF CfgNext, Inside

\* Before StartWatching only the files change.
LEMMA ConfigAtBoot ==
  ASSUME CfgNext, \A a \in Actors : pc[a] = "off"
  PROVE  UNCHANGED <<config, pc>>
<1> USE DEF Actors
<1>1. ASSUME NEW a \in Actors PROVE ~Reload(a) /\ ~Redirect(a) /\ ~LoadRead(a) /\ ~LoadStore(a) /\ ~CopyConfig(a)
  BY DEF Reload, Redirect, LoadRead, LoadStore, CopyConfig
<1>2. ~SetFails("caller") /\ ~SetConfig("caller") /\ ~SaveImported("caller") /\ ~UpdateInPlace("caller")
  BY DEF SetFails, SetConfig, SaveImported, UpdateInPlace
<1>3. ~CheckFileChanges /\ ~NotifyWatchers /\ ~CallerEnters
  BY DEF CheckFileChanges, NotifyWatchers, CallerEnters
<1> QED  BY <1>1, <1>2, <1>3 DEF CfgNext, Inside, Edit

ConfigGood == CfgTypeOK /\ ConfigInv /\ BootInv

\* Loading at start-up, starting, stopping and restarting keep it too.
LEMMA ConfigKept ==
  ASSUME TypeOK, ConfigInv, BootInv, [Next]_vars
  PROVE  ConfigGood' /\ (main \notin {"hung", "fatal"} => Forward)
<1> DEFINE Goal == ConfigGood' /\ (main \notin {"hung", "fatal"} => Forward)
<1>0. CfgTypeOK /\ step \in 1..14 /\ (main = "stopping" => step \in 1..10) /\ config.version \in Nat
  BY ConfigFields DEF TypeOK, StartOrder, StopOrder
<1>1. ASSUME UNCHANGED cfgVars, \/ UNCHANGED <<main, step>>
                                \/ main' = "start" /\ main = "start" /\ step' = step + 1
                                \/ main' \in {"running", "stopping", "exited"}
                                \/ main' = "fatal" /\ main = "start" /\ step = 5
      PROVE  Goal
  <2>1. CfgTypeOK' /\ ConfigInv' /\ Forward
    BY <1>0, <1>1 DEF CfgTypeOK, ConfigInv, cfgVars, Forward
  <2>2. BootInv'
    BY <1>0, <1>1 DEF BootInv, cfgVars
  <2> QED  BY <2>1, <2>2 DEF ConfigGood
<1>2. CASE Restart
  <2>1. CfgTypeOK'
    BY <1>0, <1>2, ConfigRecords DEF Restart, CfgTypeOK
  <2>2. /\ config' = Unread /\ UNCHANGED <<files, lock, pc, got, version>> /\ main \in {"hung", "fatal"}
        /\ \A a \in Actors : pc[a] = "off"
    BY <1>2 DEF Restart, BootInv
  <2>3. Unread.version = 0 /\ Unread.from \in Paths /\ version \in Nat /\ files["main"].version \in Nat
    BY <1>0, ConfigRecords, ConfigFields DEF CfgTypeOK, Paths
  <2>4. ConfigInv'
    BY <2>2, <2>3, ConfigRecords DEF ConfigInv
  <2> QED  BY <1>2, <2>1, <2>4 DEF Restart, BootInv, ConfigGood
<1>3. CASE Boot
  <2>1. /\ UNCHANGED <<files, path, lock, pc, arg, got, version>> /\ config = Unread
        /\ \A a \in Actors : pc[a] = "off" /\ path \in Paths
    BY <1>0, <1>3 DEF Boot, BootInv, CfgTypeOK
  <2>2. CASE main = "boot1"
    <3>1. UNCHANGED <<config, newer>> /\ main' = "boot2"
      BY <1>3, <2>2 DEF Boot
    <3>2. CfgTypeOK' /\ ConfigInv' /\ Forward
      BY <1>0, <2>1, <3>1 DEF CfgTypeOK, ConfigInv, Forward
    <3> QED  BY <2>1, <3>1, <3>2 DEF BootInv, ConfigGood
  <2>3. CASE main = "boot2"
    <3>1. /\ config' = [version |-> files[path].version, from |-> path] /\ newer' = [p \in Paths |-> FALSE]
          /\ main' = "start"
      BY <1>3, <2>3 DEF Boot
    <3>6. path \in Paths /\ files[path].version \in 0..MaxVersion /\ files[path].version <= version
      BY <1>0, ConfigFields DEF CfgTypeOK, ConfigInv
    <3>2. /\ config' \in Config /\ config'.version = files[path].version /\ config'.from = path
          /\ files[path].version \in Nat /\ files[path].version <= version
      BY <3>1, <3>6, ConfigRecords
    <3>3. CfgTypeOK'
      BY <1>0, <2>1, <3>1, <3>2 DEF CfgTypeOK
    <3>4. Forward
      BY <2>1, <3>2, ConfigRecords DEF Forward
    <3>5. ConfigInv'
      BY <2>1, <3>2 DEF ConfigInv
    <3> QED  BY <2>1, <3>1, <3>3, <3>4, <3>5 DEF BootInv, ConfigGood
  <2> QED  BY <1>3, <2>2, <2>3 DEF Boot
<1>4. CASE BootDefault
  <2>1. /\ UNCHANGED <<config, path, lock, pc, arg, got, newer>> /\ config = Unread
        /\ \A a \in Actors : pc[a] = "off" /\ path \in Paths
    BY <1>0, <1>4 DEF BootDefault, BootInv, CfgTypeOK
  <2>2. \/ UNCHANGED <<files, version>>
        \/ version' = version + 1 /\ version < MaxVersion /\ files' = [files EXCEPT ![path] = Good(version + 1)]
    BY <1>4 DEF BootDefault
  <2>3. version \in 0..MaxVersion /\ (version < MaxVersion => version + 1 \in 0..MaxVersion)
    BY <1>0, MaxVersionAssumption DEF CfgTypeOK
  <2>4. CfgTypeOK' /\ Forward
    BY <1>0, <2>1, <2>2, <2>3, ConfigRecords DEF CfgTypeOK, Forward
  <2>5. ASSUME NEW p \in Paths PROVE files'[p].version \in Nat /\ files'[p].version <= version'
    <3>1. files[p].version \in Nat /\ files[p].version <= version
      BY <1>0, ConfigFields DEF ConfigInv
    <3>2. CASE UNCHANGED <<files, version>>
      BY <3>1, <3>2
    <3>3. CASE version' = version + 1 /\ version < MaxVersion /\ files' = [files EXCEPT ![path] = Good(version + 1)]
      <4>1. files'[p] = IF p = path THEN Good(version + 1) ELSE files[p]
        BY <1>0, <3>3 DEF CfgTypeOK
      <4> QED  BY <2>3, <3>1, <3>3, <4>1, ConfigRecords
    <3> QED  BY <2>2, <3>2, <3>3
  <2>6. ASSUME NEW a \in Actors PROVE got'[a].version <= version'
    BY <1>0, <2>1, <2>2, <2>3, ConfigFields DEF ConfigInv
  <2>7. version' \in Nat /\ "main" \in Paths /\ config'.version = 0 /\ config'.from = "main"
    BY <2>1, <2>2, <2>3, ConfigRecords DEF Paths
  <2>8. lock' = lock /\ \A a \in Actors : pc'[a] = "off" /\ lock # a
    BY <2>1 DEF ConfigInv
  <2>9. ConfigInv'
    BY <2>5, <2>6, <2>7, <2>8 DEF ConfigInv
  <2> QED  BY <1>4, <2>4, <2>9 DEF BootDefault, BootInv, ConfigGood
<1>5. CASE Start
  <2>1. ASSUME NEW m \in DOMAIN Subscribes, RegisterStep(m) PROVE Goal
    BY <1>1, <2>1 DEF RegisterStep, StartNext, AtStart
  <2>2. ASSUME NEW s \in Parts, StartPart(s) PROVE Goal
    BY <1>1, <2>2 DEF StartPart, StartNext, AtStart
  <2>3. CASE StartFails
    BY <1>0, <1>1, <2>3, StartPlaces DEF StartFails, StartOrder
  <2>4. CASE StartWatching
    <3>1. step = 6 /\ main = "start"
      BY <1>0, <2>4, StartPlaces DEF StartWatching, StartOrder
    <3>2. CfgTypeOK' /\ ConfigInv' /\ Forward
      BY <1>0, <2>4, <3>1 DEF StartWatching, CfgTypeOK, ConfigInv, BootInv, Actors, Forward
    <3> QED  BY <2>4, <3>1, <3>2 DEF StartWatching, StartNext, BootInv, ConfigGood
  <2>5. CASE StartTrigger \/ StartLoop
    BY <1>1, <2>5 DEF StartTrigger, StartLoop, StartNext, AtStart
  <2>6. CASE Started
    BY <1>1, <2>6 DEF Started
  <2> QED  BY <1>5, <2>1, <2>2, <2>3, <2>4, <2>5, <2>6 DEF Start
<1>6. CASE Signal \/ Exit
  BY <1>1, <1>6 DEF Signal, Exit
<1>7. CASE Stop
  <2>1. UNCHANGED cfgVars /\ main' = main /\ main = "stopping"
    BY <1>7 DEF Stop, StopCancel, StopEmit, StopTriggerModule, TriggerModuleStopped, StopModule, ModulesStopped,
                StopLoop, StopTrigger, StopPart, StopNext, AtStop, ctlVars
  <2> QED  BY <1>1, <2>1
<1>8. CASE CfgNext /\ UNCHANGED ctlVars
  <2>1. CfgTypeOK' /\ ConfigInv' /\ Forward
    BY <1>0, <1>8, ConfigStep
  <2>2. BootInv'
    BY <1>8, ConfigAtBoot DEF BootInv, ctlVars
  <2> QED  BY <2>1, <2>2 DEF ConfigGood
<1>9. CASE WatcherEnds /\ UNCHANGED ctlVars
  <2>1. CfgTypeOK' /\ ConfigInv' /\ Forward
    BY <1>0, <1>9 DEF WatcherEnds, Goto, CfgTypeOK, ConfigInv, Actors, Forward
  <2>2. BootInv'
    BY <1>9 DEF WatcherEnds, BootInv, ctlVars
  <2> QED  BY <2>1, <2>2 DEF ConfigGood
<1>10. CASE TriggerTick \/ ScheduleTriggered \/ \E cmd \in Requests : ExecuteBusinessCommand(cmd)
  BY <1>1, <1>10 DEF TriggerTick, ScheduleTriggered, ExecuteBusinessCommand, ctlVars
<1>11. CASE \E t \in DOMAIN tasks, r \in Receivers : ProcessTask(r, t)
  BY <1>1, <1>11 DEF ProcessTask
<1>12. CASE UNCHANGED <<cfgVars, ctlVars>>
  BY <1>1, <1>12 DEF ctlVars
<1> QED  BY <1>2, <1>3, <1>4, <1>5, <1>6, <1>7, <1>8, <1>9, <1>10, <1>11, <1>12 DEF Next, vars

-----------------------------------------------------------------------------
(* The event loop *)

\* EmitEvent keeps the queue within its buffer.
LEMMA EmitType ==
  ASSUME ELTypeOK, NEW e \in {"system_start", "system_stop"}, Emit(e)
  PROVE  eventQueue' \in Seq({"system_start", "system_stop"}) /\ Len(eventQueue') <= EventBuffer
<1> DEFINE S == {"system_start", "system_stop"}
<1>1. eventQueue \in Seq(S) /\ Len(eventQueue) <= EventBuffer /\ Len(eventQueue) \in Nat /\ EventBuffer \in Nat
  BY EventLoopAssumption, LenProperties DEF ELTypeOK
<1>2. eventQueue' = IF Len(eventQueue) < EventBuffer THEN Append(eventQueue, e) ELSE eventQueue
  BY DEF Emit
<1>3. e \in S
  OBVIOUS
<1> HIDE DEF S
<1>4. Append(eventQueue, e) \in Seq(S) /\ Len(Append(eventQueue, e)) = Len(eventQueue) + 1
  BY <1>1, <1>3, AppendProperties
<1> QED  BY <1>1, <1>2, <1>4 DEF S

\* Every step leaves the event loop type-correct.
LEMMA LoopKept ==
  ASSUME ELTypeOK, [Next]_vars
  PROVE  ELTypeOK'
<1>1. CASE UNCHANGED elVars
  BY <1>1 DEF ELTypeOK, elVars
<1>2. CASE Restart
  BY <1>2 DEF Restart, ELTypeOK
<1>3. ASSUME NEW m \in DOMAIN Subscribes, RegisterModule(m) PROVE ELTypeOK'
  BY <1>3 DEF RegisterModule, ELTypeOK
<1>4. CASE ELStart
  <2>1. eventQueue' \in Seq({"system_start", "system_stop"}) /\ Len(eventQueue') <= EventBuffer
    BY <1>4, EmitType DEF ELStart
  <2> QED  BY <1>4, <2>1 DEF ELStart, ELTypeOK
<1>5. CASE ELStopEmit
  <2>1. eventQueue' \in Seq({"system_start", "system_stop"}) /\ Len(eventQueue') <= EventBuffer
    BY <1>5, EmitType DEF ELStopEmit
  <2> QED  BY <1>5, <2>1 DEF ELStopEmit, ELTypeOK
<1>6. CASE Cancel \/ ELStopped \/ LoopEnds
  BY <1>6 DEF Cancel, ELStopped, LoopEnds, ELTypeOK
<1>7. CASE Exit
  BY <1>7, EventLoopAssumption DEF Exit, ELTypeOK
<1>8. CASE TakeEvent
  <2> DEFINE S == {"system_start", "system_stop"}
  <2>1. eventQueue \in Seq(S) /\ Len(eventQueue) <= EventBuffer /\ EventBuffer \in Nat /\ eventQueue # <<>>
    BY <1>8, EventLoopAssumption DEF TakeEvent, ELTypeOK
  <2>2. Head(eventQueue) \in S
    BY <2>1
  <2>3. ticks' = ticks /\ UNCHANGED <<modules, subscribed, el>> /\ eventQueue' = Tail(eventQueue)
    BY <1>8, <2>2 DEF TakeEvent, Handle
  <2> HIDE DEF S
  <2>4. Tail(eventQueue) \in Seq(S) /\ Len(Tail(eventQueue)) = Len(eventQueue) - 1 /\ Len(eventQueue) \in Nat
    BY <2>1, TailRange
  <2>5. eventQueue' \in Seq(S) /\ Len(eventQueue') <= EventBuffer
    BY <2>1, <2>3, <2>4
  <2> QED  BY <2>3, <2>5 DEF ELTypeOK, S
<1>9. CASE Tick
  BY <1>9, EventLoopAssumption DEF Tick, Handle, ELTypeOK
<1>10. CASE TriggerTick
  BY <1>10, EventLoopAssumption DEF TriggerTick, ELTypeOK
<1>11. CASE Boot \/ BootDefault \/ Signal
  BY <1>1, <1>11 DEF Boot, BootDefault, Signal
<1>12. CASE Start
  BY <1>1, <1>3, <1>4, <1>12 DEF Start, RegisterStep, StartPart, StartFails, StartWatching, StartTrigger, StartLoop, Started
<1>13. CASE Stop
  BY <1>1, <1>5, <1>6, <1>13
     DEF Stop, StopCancel, StopEmit, StopTriggerModule, TriggerModuleStopped, StopModule, ModulesStopped,
         StopLoop, StopTrigger, StopPart
<1>14. CASE ScheduleTriggered \/ \E cmd \in Requests : ExecuteBusinessCommand(cmd)
  BY <1>1, <1>14 DEF ScheduleTriggered, ExecuteBusinessCommand
<1>15. CASE \E t \in DOMAIN tasks, r \in Receivers : ProcessTask(r, t)
  BY <1>1, <1>15 DEF ProcessTask
<1> QED  BY <1>1, <1>2, <1>6, <1>7, <1>8, <1>9, <1>10, <1>11, <1>12, <1>13, <1>14, <1>15 DEF Next, vars

-----------------------------------------------------------------------------
(* Starting and stopping *)

TrigType == [running : BOOLEAN, cancelled : BOOLEAN, closed : BOOLEAN, run : {"off", "loop", "check", "ended"}]

LifeType ==
    /\ main \in {"boot1", "boot2", "start", "running", "stopping", "exited", "fatal", "hung"}
    /\ step \in 1..14 /\ (main = "stopping" => step <= 10)
    /\ up \subseteq Parts /\ left \subseteq modules /\ starts \in 1..MaxStarts /\ scene \in Scenes
    /\ enabled \in BOOLEAN
    /\ trig \in TrigType
    /\ crash \in {"no", "send", "close", "decompose"}

LifeGood == LifeType /\ ShutdownInv /\ PanicOnlyAfterClose

\* A step of Start.
LEMMA StartKept ==
  ASSUME LifeGood, Start
  PROVE  LifeGood'
<1> USE DEF LifeGood, LifeType, TrigType, ShutdownInv, PanicOnlyAfterClose
<1>0. Len(StartOrder) = 14
  BY DEF StartOrder
<1>1. ASSUME NEW m \in DOMAIN Subscribes, RegisterStep(m) PROVE LifeGood'
  <2>1. m # "configWatch"
    BY DEF Subscribes
  <2>2. main = "start" /\ step + 1 \in 1..14
    BY <1>0, <1>1, <2>1, StartPlaces DEF RegisterStep
  <2> QED  BY <1>1, <2>2 DEF RegisterStep, StartNext, RegisterModule, trigVars
<1>2. ASSUME NEW s \in Parts, StartPart(s) PROVE LifeGood'
  <2>1. s # "configWatch"
    BY DEF Parts
  <2>2. main = "start" /\ step + 1 \in 1..14
    BY <1>0, <1>2, <2>1, StartPlaces DEF StartPart
  <2> QED  BY <1>2, <2>2 DEF StartPart, StartNext, trigVars, elVars
<1>3. CASE StartFails
  BY <1>3 DEF StartFails, AtStart, trigVars, elVars
<1>4. CASE StartWatching
  <2>1. main = "start" /\ step + 1 \in 1..14
    BY <1>0, <1>4, StartPlaces DEF StartWatching
  <2> QED  BY <1>4, <2>1 DEF StartWatching, StartNext, trigVars, elVars
<1>5. CASE StartTrigger
  <2>1. main = "start" /\ step + 1 \in 1..14
    BY <1>0, <1>5, StartPlaces DEF StartTrigger
  <2> QED  BY <1>5, <2>1 DEF StartTrigger, StartNext, TrigStart, elVars
<1>6. CASE StartLoop
  <2>1. main = "start" /\ step + 1 \in 1..14
    BY <1>0, <1>6, StartPlaces DEF StartLoop
  <2> QED  BY <1>6, <2>1 DEF StartLoop, StartNext, ELStart, trigVars
<1>7. CASE Started
  BY <1>7 DEF Started, AtStart, trigVars, elVars
<1> QED  BY <1>1, <1>2, <1>3, <1>4, <1>5, <1>6, <1>7 DEF Start

\* A step of Stop: the trigger's channel is closed once, by the first who finds it running.
LEMMA StopKept ==
  ASSUME LifeGood, Stop
  PROVE  LifeGood'
<1> USE DEF LifeGood, LifeType, TrigType, ShutdownInv, PanicOnlyAfterClose
<1>0. main = "stopping" => step \in 1..10
  OBVIOUS
<1>1. CASE StopCancel
  <2>1. main = "stopping" /\ step = 1
    BY <1>0, <1>1, StopPlaces DEF StopCancel, AtStop
  <2>2. trig' = [trig EXCEPT !.cancelled = TRUE] /\ trig \in TrigType
    BY <1>1 DEF StopCancel, TrigType
  <2>3. trig' \in TrigType /\ trig'.closed = trig.closed
    BY <2>2 DEF TrigType
  <2>4. ~trig.closed
    BY <2>1
  <2> QED  BY <1>1, <2>1, <2>3, <2>4 DEF StopCancel, StopNext, Cancel, TrigType
<1>2. CASE StopEmit
  <2>1. main = "stopping" /\ step = 2
    BY <1>0, <1>2, StopPlaces DEF StopEmit, AtStop
  <2> QED  BY <1>2, <2>1 DEF StopEmit, StopNext, ELStopEmit, trigVars
<1>3. CASE StopTriggerModule
  <2>1. main = "stopping" /\ step = 3
    BY <1>0, <1>3, StopPlaces DEF StopTriggerModule, AtStop
  <2>2. trig \in TrigType /\ ~(trig.closed /\ trig.running)
    BY <1>3, <2>1 DEF TrigType, StopTriggerModule
  <2>3. CASE trig.running
    <3>1. trig' = [trig EXCEPT !.cancelled = TRUE, !.closed = TRUE] /\ ~trig.closed /\ crash' = crash
      BY <1>3, <2>2, <2>3 DEF StopTriggerModule, TrigStop
    <3>2. trig' \in TrigType
      BY <2>2, <3>1 DEF TrigType
    <3> QED  BY <1>3, <2>1, <3>1, <3>2 DEF StopTriggerModule, StopNext, TrigStop, TrigType, elVars, ctlVars
  <2>4. CASE ~trig.running
    <3>1. trig' = trig /\ crash' = crash
      BY <1>3, <2>4 DEF StopTriggerModule, TrigStop
    <3> QED  BY <1>3, <2>1, <2>4, <3>1 DEF StopTriggerModule, StopNext, TrigStop, elVars, ctlVars
  <2> QED  BY <2>3, <2>4
<1>4. CASE TriggerModuleStopped
  <2>1. main = "stopping" /\ step = 3
    BY <1>0, <1>4, StopPlaces DEF TriggerModuleStopped, AtStop
  <2> QED  BY <1>4, <2>1 DEF TriggerModuleStopped, TrigStopped, elVars
<1>5. ASSUME NEW m \in {"task_scheduler", "command_executor"}, NEW p, StopModule(m, p) PROVE LifeGood'
  <2>1. main = "stopping" /\ step = 3
    BY <1>0, <1>5, StopPlaces DEF StopModule, AtStop
  <2> QED  BY <1>5, <2>1 DEF StopModule, trigVars, elVars
<1>6. CASE ModulesStopped
  <2>1. main = "stopping" /\ step = 3
    BY <1>0, <1>6, StopPlaces DEF ModulesStopped, AtStop
  <2> QED  BY <1>6, <2>1 DEF ModulesStopped, StopNext, trigVars, elVars
<1>7. CASE StopLoop
  <2>1. main = "stopping" /\ step \in 1..9 /\ step # 3 /\ step # 5
    BY <1>0, <1>7, StopPlaces DEF StopLoop, AtStop
  <2> QED  BY <1>7, <2>1 DEF StopLoop, StopNext, ELStopped, trigVars
<1>8. CASE StopTrigger
  <2>1. main = "stopping" /\ step = 5
    BY <1>0, <1>8, StopPlaces DEF StopTrigger, AtStop
  <2>2. trig \in TrigType /\ ~(trig.closed /\ trig.running)
    BY <1>8, <2>1 DEF TrigType
  <2>3. CASE trig.running
    <3>1. trig' = [trig EXCEPT !.cancelled = TRUE, !.closed = TRUE] /\ ~trig.closed /\ crash' = crash
      BY <1>8, <2>2, <2>3 DEF StopTrigger, TrigStop
    <3>2. trig' \in TrigType
      BY <2>2, <3>1 DEF TrigType
    <3> QED  BY <1>8, <2>1, <3>1, <3>2 DEF StopTrigger, StopNext, TrigStop, TrigType, elVars, ctlVars
  <2>4. CASE ~trig.running
    <3>1. trig' = trig /\ crash' = crash
      BY <1>8, <2>4 DEF StopTrigger, TrigStop
    <3> QED  BY <1>8, <2>1, <2>4, <3>1 DEF StopTrigger, StopNext, TrigStop, elVars, ctlVars
  <2> QED  BY <2>3, <2>4
<1>9. ASSUME NEW s \in {"scheduler", "coordination", "hal", "ipcServer"}, StopPart(s) PROVE LifeGood'
  <2>1. main = "stopping" /\ step + 1 \in 1..10 /\ step # 3 /\ step # 5
    BY <1>0, <1>9, StopPlaces DEF StopPart, AtStop
  <2> QED  BY <1>9, <2>1 DEF StopPart, StopNext, trigVars, elVars
<1> QED  BY <1>1, <1>2, <1>3, <1>4, <1>5, <1>6, <1>7, <1>8, <1>9 DEF Stop

\* The goroutines that send to the trigger's channel: a panic needs a closed channel.
LEMMA SendKept ==
  ASSUME LifeGood, TriggerTick \/ (RunCheck /\ UNCHANGED <<elVars, ctlVars>>)
  PROVE  LifeGood'
<1> USE DEF LifeGood, LifeType, TrigType, ShutdownInv, PanicOnlyAfterClose
<1>1. UNCHANGED <<main, step, up, left, starts, scene, enabled, modules>>
  BY DEF TriggerTick, TimerCheck, RunCheck, elVars, ctlVars
<1>2. crash' = crash \/ (crash' = "send" /\ trig.closed)
  <2>1. ASSUME NEW shape, NEW named, Offer(shape, named) PROVE crash' = crash \/ (crash' = "send" /\ trig.closed)
    BY <2>1 DEF Offer
  <2> QED  BY <2>1 DEF TriggerTick, TimerCheck, RunCheck
<1>3. trig' \in TrigType /\ trig'.closed = trig.closed /\ trig'.running = trig.running
  <2>1. trig' = trig \/ trig' = [trig EXCEPT !.run = "loop"]
    BY DEF TriggerTick, TimerCheck, RunCheck
  <2> QED  BY <2>1
<1> QED  BY <1>1, <1>2, <1>3

\* Every step keeps the life cycle's invariant.
LEMMA LifeKept ==
  ASSUME LifeGood, [Next]_vars
  PROVE  LifeGood'
<1> USE DEF LifeGood, LifeType, TrigType, ShutdownInv, PanicOnlyAfterClose
<1> DEFINE rest == <<up, left, starts, scene, enabled, modules, trig, step>>
<1>1. CASE UNCHANGED <<rest, main, crash>>
  BY <1>1
<1>2. CASE Restart
  BY <1>2, ControlAssumption DEF Restart, trigVars
<1>3. CASE Boot \/ BootDefault
  BY <1>3 DEF Boot, BootDefault, trigVars, elVars
<1>4. CASE Signal
  BY <1>4 DEF Signal, trigVars, elVars
<1>5. CASE Alive /\ Exit
  <2>1. trig' = [running |-> FALSE, cancelled |-> FALSE, closed |-> FALSE, run |-> "off"]
    BY <1>5 DEF Exit
  <2>2. trig' \in TrigType /\ ~trig'.closed
    BY <2>1
  <2>3. enabled' \in BOOLEAN
    BY <1>5 DEF Exit
  <2>4. crash' = crash /\ crash = "no" /\ main' = "exited"
    BY <1>5 DEF Exit, Alive
  <2> QED  BY <1>5, <2>2, <2>3, <2>4 DEF Exit
<1>6. CASE (CfgNext \/ WatcherEnds) /\ UNCHANGED <<trigVars, elVars, ctlVars>>
  BY <1>1, <1>6 DEF trigVars, elVars, ctlVars
<1>7. CASE (TakeEvent \/ LoopEnds \/ Tick) /\ UNCHANGED <<cfgVars, trigVars, ctlVars>>
  BY <1>1, <1>7 DEF TakeEvent, LoopEnds, Tick, trigVars, ctlVars
<1>8. CASE ChangeTrigger /\ UNCHANGED <<elVars, ctlVars>>
  BY <1>8 DEF ChangeTrigger, elVars, ctlVars
<1>9. CASE RunLoop /\ UNCHANGED <<elVars, ctlVars>>
  <2>1. trig' = [trig EXCEPT !.run = IF trig.cancelled THEN "ended" ELSE "check"] /\ crash' = crash /\ enabled' = enabled
    BY <1>9 DEF RunLoop
  <2>2. trig' \in TrigType /\ trig'.closed = trig.closed /\ trig'.running = trig.running
    BY <2>1
  <2> QED  BY <1>9, <2>1, <2>2 DEF elVars, ctlVars
<1>10. CASE ScheduleTriggered \/ \E cmd \in Requests : ExecuteBusinessCommand(cmd)
  BY <1>1, <1>10 DEF ScheduleTriggered, ExecuteBusinessCommand, elVars, ctlVars
<1>11. CASE Alive /\ \E t \in DOMAIN tasks, r \in Receivers : ProcessTask(r, t)
  <2>1. crash' \in {"no", "decompose"} /\ UNCHANGED <<rest, main>>
    BY <1>11 DEF ProcessTask, Alive, elVars
  <2> QED  BY <2>1
<1>12. CASE UNCHANGED vars
  BY <1>1, <1>12 DEF vars, trigVars, elVars, ctlVars
<1> QED  BY <1>2, <1>3, <1>4, <1>5, <1>6, <1>7, <1>8, <1>9, <1>10, <1>11, <1>12, StartKept, StopKept, SendKept
         DEF Next

-----------------------------------------------------------------------------
(* Tasks and commands *)

\* The loop of decomposeMoveTo and its likes makes a list of commands.
LEMMA PerAxisType ==
  ASSUME NEW type \in CommandType, NEW axes \in Seq(STRING)
  PROVE  PerAxis(type, axes) \in Seq(Command)
<1> DEFINE n == Len(axes)
           X == Seq(Command)
           cmd(i) == [id |-> NoId, device |-> AxisDevice[axes[i]], type |-> type]
           Step(i, x) == IF axes[i] \in Axes THEN Append(x, cmd(i)) ELSE x
           d == [i \in 1..n |-> [x \in X |-> Step(i, x)]]
           Made(f) == f = [i \in 0..n |-> IF i = 0 THEN <<>> ELSE Step(i, f[i - 1])]
<1>1. n \in Nat /\ <<>> \in X
  BY LenProperties
<1>2. ASSUME NEW i \in 1..n, axes[i] \in Axes PROVE cmd(i) \in Command
  <2>1. AxisDevice[axes[i]] \in STRING
    BY <1>2, AxesAssumption
  <2>2. NoId \in CommandId
    BY DEF NoId, CommandId
  <2> QED  BY <2>1, <2>2 DEF Command
<1>3. \A i \in 1..n, x \in X : Step(i, x) \in X
  <2> SUFFICES ASSUME NEW i \in 1..n, NEW x \in X PROVE Step(i, x) \in X
    OBVIOUS
  <2>1. CASE axes[i] \in Axes
    <3>1. cmd(i) \in Command
      BY <1>2, <2>1
    <3> HIDE DEF cmd
    <3> QED  BY <2>1, <3>1, AppendProperties
  <2> QED  BY <2>1
<1> HIDE DEF cmd, X, n, Step
<1>4. d \in [1..n -> [X -> X]]
  BY <1>3
<1>5. \A i \in 1..n, x \in X : d[i][x] = Step(i, x)
  OBVIOUS
<1> HIDE DEF d
<1>6. PICK g \in [0..n -> X] : g[0] = <<>> /\ \A i \in 1..n : g[i] = d[i][g[i - 1]]
  <2> DEFINE x0 == <<>>
  <2>1. x0 \in X
    BY <1>1
  <2> HIDE DEF x0
  <2>2. \E g \in [0..n -> X] : IsLoop(g, n, x0, d)
    BY <1>1, <1>4, <2>1, LoopExists
  <2> QED  BY <2>2 DEF x0, IsLoop
<1>7. Made(g)
  <2>1. ASSUME NEW i \in 0..n PROVE g[i] = IF i = 0 THEN <<>> ELSE Step(i, g[i - 1])
    <3>1. CASE i # 0
      <4>1. i \in 1..n /\ i - 1 \in 0..n
        BY <1>1, <3>1
      <4>2. g[i - 1] \in X
        BY <1>6, <4>1
      <4> QED  BY <1>5, <1>6, <3>1, <4>1, <4>2
    <3> QED  BY <1>6, <3>1
  <2> QED  BY <1>6, <2>1
<1> DEFINE F == CHOOSE f : Made(f)
<1>8. Made(F)
  <2> HIDE DEF Made
  <2> QED  BY <1>7, Zenon
<1>9. PerAxis(type, axes) = F[n]
  BY Zenon DEF PerAxis, Step, cmd, n
<1>10. \A i \in 0..n : F[i] \in X
  <2> DEFINE Bad == {i \in 0..n : F[i] \notin X}
  <2> HIDE DEF F
  <2> SUFFICES ASSUME Bad # {} PROVE FALSE
    OBVIOUS
  <2> DEFINE m == Min(Bad)
  <2>1. m \in Bad /\ \A j \in Bad : m <= j
    <3>1. Bad \in SUBSET Nat
      BY <1>1
    <3> HIDE DEF Bad
    <3> QED  BY <3>1, MinIsMember
  <2> HIDE DEF m
  <2>2. F[0] = <<>> /\ 0 \in 0..n
    BY <1>1, <1>8
  <2>3. m # 0 /\ m \in 1..n /\ F[m] \notin X
    BY <1>1, <2>1, <2>2
  <2>4. m - 1 \in 0..n /\ m - 1 < m
    BY <1>1, <2>3
  <2>5. F[m - 1] \in X
    BY <1>1, <2>1, <2>3, <2>4
  <2>6. F[m] = Step(m, F[m - 1])
    BY <1>1, <1>8, <2>3
  <2> QED  BY <1>3, <2>3, <2>5, <2>6
<1> QED  BY <1>1, <1>9, <1>10 DEF X

\* What DecomposeTask returns is a list of commands, and those of a task without a tree are
\* named after the task and their places.
LEMMA Decomposed ==
  ASSUME NEW task \in Task
  PROVE  /\ DecomposeTask(task).commands \in Seq(Command)
         /\ task.root = <<>> => \A i \in 1..Len(DecomposeTask(task).commands) :
                DecomposeTask(task).commands[i].id = [of |-> task.id, part |-> "cmd", n |-> i - 1]
<1> DEFINE made == PerAxis(task.type, task.axes)
           name(i) == [of |-> task.id, part |-> "cmd", n |-> i - 1]
           named == [i \in 1..Len(made) |-> [made[i] EXCEPT !.id = name(i)]]
<1>1. CASE task.root = <<>> /\ task.type \in Motions
  <2>1. task.type \in CommandType /\ task.axes \in Seq(STRING) /\ task.id \in Nat
    BY <1>1, TriggerAssumption DEF CommandType, Task
  <2>2. made \in Seq(Command)
    BY <2>1, PerAxisType
  <2>3. DecomposeTask(task).commands = named
    BY <1>1 DEF DecomposeTask, DecomposeLegacy, Commands
  <2> HIDE DEF made
  <2>4. Len(made) \in Nat /\ \A i \in 1..Len(made) : made[i] \in Command
    BY <2>2, LenProperties, ElementOfSeq
  <2>5. ASSUME NEW i \in 1..Len(made) PROVE named[i] \in Command /\ named[i].id = name(i)
    <3>1. name(i) \in CommandId
      BY <2>1, <2>4 DEF CommandId
    <3> HIDE DEF name
    <3> QED  BY <2>4, <3>1 DEF Command
  <2>6. named \in [1..Len(made) -> Command]
    BY <2>5
  <2>7. named \in Seq(Command) /\ Len(named) = Len(made)
    <3> HIDE DEF named
    <3> QED  BY <2>4, <2>6
  <2> QED  BY <2>3, <2>5, <2>7
<1>2. CASE task.root = <<>> /\ task.type \notin Motions
  BY <1>2 DEF DecomposeTask, DecomposeLegacy, Failure
<1>3. CASE task.root # <<>>
  <2>1. DecomposeTree(task.root[1]) \in Result
    BY <1>3, ShapeAssumption DEF Task
  <2> QED  BY <1>3, <2>1 DEF DecomposeTask, Result
<1> QED  BY <1>1, <1>2, <1>3

Pushed == [task : 1..Len(tasks), cmd : Command]

TaskTypes ==
    /\ tasks \in Seq(Task) /\ Len(tasks) <= MaxTasks
    /\ \A t \in 1..Len(tasks) : tasks[t].id \in {0, t}
    /\ taskChan \in Seq(1..Len(tasks)) /\ Len(taskChan) <= ChanSize
    /\ pushed \in Seq(Pushed)

\* What TaskInv says of the commands given to the executor's queue.
PushedInv ==
    \A i \in 1..Len(pushed) :
        LET t == pushed[i].task IN
        tasks[t].at = "done" /\ (tasks[t].root = <<>> => pushed[i].cmd.id.of = tasks[t].id)

TaskGood == TaskTypes /\ TaskInv /\ NamedIdsDistinct

\* Commands stay as they are while tasks are added and move on.
LEMMA PushedKept ==
  ASSUME TaskTypes, PushedInv, NamedIdsDistinct, pushed' = pushed, Len(tasks') \in Nat, Len(tasks) <= Len(tasks'),
         \A t \in 1..Len(tasks) : /\ tasks'[t].id = tasks[t].id /\ tasks'[t].root = tasks[t].root
                                  /\ tasks[t].at = "done" => tasks'[t].at = "done"
  PROVE  pushed' \in Seq(Pushed') /\ PushedInv' /\ NamedIdsDistinct'
<1>1. Len(tasks) \in Nat /\ pushed \in Seq(Pushed)
  BY LenProperties DEF TaskTypes
<1>2. Len(pushed) \in Nat /\ DOMAIN pushed = 1..Len(pushed) /\ \A i \in 1..Len(pushed) : pushed[i].task \in 1..Len(tasks)
  <2>1. Len(pushed) \in Nat /\ DOMAIN pushed = 1..Len(pushed)
    BY <1>1, LenProperties
  <2>2. \A i \in 1..Len(pushed) : pushed[i] \in Pushed
    BY <1>1, ElementOfSeq
  <2> QED  BY <2>1, <2>2 DEF Pushed
<1>3. Pushed \subseteq Pushed'
  BY <1>1 DEF Pushed
<1>4. pushed' \in Seq(Pushed')
  BY <1>1, <1>3, SeqMonotonic
<1>5. PushedInv'
  BY <1>2 DEF PushedInv
<1>6. NamedIdsDistinct'
  <2> SUFFICES ASSUME NEW i \in DOMAIN pushed, NEW j \in DOMAIN pushed, i # j,
                      \A k \in {i, j} : tasks'[pushed[k].task].id # 0 /\ tasks'[pushed[k].task].root = <<>>
               PROVE  pushed[i].cmd.id # pushed[j].cmd.id
    BY DEF NamedIdsDistinct
  <2>1. pushed[i].task \in 1..Len(tasks) /\ pushed[j].task \in 1..Len(tasks)
    BY <1>2
  <2>2. \A k \in {i, j} : tasks[pushed[k].task].id # 0 /\ tasks[pushed[k].task].root = <<>>
    BY <2>1
  <2> QED  BY <2>2 DEF NamedIdsDistinct
<1> QED  BY <1>4, <1>5, <1>6

\* A new task, from a source or a client, with its place in the channel if it has one.
LEMMA TaskAdded ==
  ASSUME TaskGood, NEW x \in Task, x.id \in {0, Len(tasks) + 1}, Len(tasks) < MaxTasks,
         tasks' = Append(tasks, x), pushed' = pushed,
         \/ taskChan' = taskChan
         \/ taskChan' = Append(taskChan, Len(tasks) + 1) /\ x.at = "chan" /\ Len(taskChan) < ChanSize
  PROVE  TaskGood'
<1> DEFINE n == Len(tasks)
           S == 1..n
           T == 1..(n + 1)
<1>1. /\ n \in Nat /\ tasks \in Seq(Task) /\ taskChan \in Seq(S) /\ Len(taskChan) <= ChanSize /\ Len(taskChan) \in Nat
      /\ MaxTasks \in Nat /\ ChanSize \in Nat
  BY LenProperties, TriggerAssumption DEF TaskGood, TaskTypes
<1>2. /\ tasks' \in Seq(Task) /\ Len(tasks') = n + 1
      /\ (\A t \in 1..n : tasks'[t] = tasks[t]) /\ tasks'[n + 1] = x
  BY <1>1, AppendProperties
<1>3. Len(tasks') <= MaxTasks /\ \A t \in 1..Len(tasks') : tasks'[t].id \in {0, t}
  <2>1. ASSUME NEW t \in 1..(n + 1) PROVE tasks'[t].id \in {0, t}
    <3>1. CASE t = n + 1
      BY <1>2, <3>1
    <3>2. CASE t # n + 1
      <4>1. t \in 1..n
        BY <1>1, <3>2
      <4> QED  BY <1>2, <4>1 DEF TaskGood, TaskTypes
    <3> QED  BY <3>1, <3>2
  <2> QED  BY <1>1, <1>2, <2>1
<1>4. pushed' \in Seq(Pushed') /\ PushedInv' /\ NamedIdsDistinct'
  <2>1. PushedInv
    BY DEF TaskGood, TaskInv, PushedInv
  <2>2. Len(tasks') \in Nat /\ n <= Len(tasks')
    BY <1>1, <1>2
  <2> QED  BY <1>2, <2>1, <2>2, PushedKept DEF TaskGood
<1> HIDE DEF n
<1>5. taskChan \in Seq(T) /\ S \subseteq T /\ n + 1 \in T /\ n + 1 \notin S
  <2>1. S \subseteq T /\ n + 1 \in T /\ n + 1 \notin S
    BY <1>1
  <2> HIDE DEF S, T
  <2> QED  BY <1>1, <2>1, SeqMonotonic
<1> HIDE DEF S, T
<1>6. Distinct(taskChan) /\ \A i \in 1..Len(taskChan) : taskChan[i] \in S /\ tasks[taskChan[i]].at = "chan"
  BY <1>1, ElementOfSeq DEF TaskGood, TaskInv
<1>7. /\ taskChan' \in Seq(T) /\ Len(taskChan') <= ChanSize /\ Distinct(taskChan')
      /\ \A i \in 1..Len(taskChan') : tasks'[taskChan'[i]].at = "chan"
  <2>1. CASE taskChan' = taskChan
    BY <1>1, <1>2, <1>5, <1>6, <2>1 DEF S
  <2>2. CASE taskChan' = Append(taskChan, n + 1) /\ x.at = "chan" /\ Len(taskChan) < ChanSize
    <3>1. n + 1 \notin Range(taskChan)
      BY <1>5, <1>6, RangeMember
    <3>2. taskChan' \in Seq(T) /\ Distinct(taskChan')
      BY <1>5, <1>6, <2>2, <3>1, AppendDistinct
    <3>3. /\ Len(taskChan') = Len(taskChan) + 1 /\ taskChan'[Len(taskChan) + 1] = n + 1
          /\ \A i \in 1..Len(taskChan) : taskChan'[i] = taskChan[i]
      BY <1>5, <2>2, AppendProperties
    <3>4. ASSUME NEW i \in 1..(Len(taskChan) + 1) PROVE tasks'[taskChan'[i]].at = "chan"
      <4>1. CASE i = Len(taskChan) + 1
        BY <1>2, <2>2, <3>3, <4>1
      <4>2. CASE i # Len(taskChan) + 1
        <5>1. i \in 1..Len(taskChan)
          BY <1>1, <4>2
        <5> QED  BY <1>2, <1>6, <3>3, <5>1 DEF S
      <4> QED  BY <4>1, <4>2
    <3>5. Len(taskChan') <= ChanSize
      BY <1>1, <2>2, <3>3
    <3> QED  BY <3>2, <3>3, <3>4, <3>5
  <2> QED  BY <2>1, <2>2 DEF n
<1> QED  BY <1>2, <1>3, <1>4, <1>7 DEF TaskGood, TaskTypes, TaskInv, PushedInv, T

\* A task moves on.
LEMMA TaskMoves ==
  ASSUME TaskTypes, NEW t \in 1..Len(tasks), NEW a \in {"scheduler", "done", "refused"},
         tasks' = [tasks EXCEPT ![t].at = a]
  PROVE  /\ tasks' \in Seq(Task) /\ Len(tasks') = Len(tasks) /\ tasks'[t].at = a
         /\ \A u \in 1..Len(tasks) : /\ tasks'[u].id = tasks[u].id /\ tasks'[u].root = tasks[u].root
                                     /\ u # t => tasks'[u] = tasks[u]
         /\ \A u \in 1..Len(tasks') : tasks'[u].id \in {0, u}
<1>1. tasks \in Seq(Task) /\ tasks[t] \in Task
  BY ElementOfSeq DEF TaskTypes
<1>2. [tasks[t] EXCEPT !.at = a] \in Task /\ tasks' = [tasks EXCEPT ![t] = [tasks[t] EXCEPT !.at = a]]
  BY <1>1 DEF Task
<1> DEFINE x == [tasks[t] EXCEPT !.at = a]
<1>3. x.at = a /\ x.id = tasks[t].id /\ x.root = tasks[t].root
  BY <1>1 DEF Task
<1> HIDE DEF x
<1>4. /\ tasks' \in Seq(Task) /\ Len(tasks') = Len(tasks)
      /\ \A u \in 1..Len(tasks) : tasks'[u] = IF u = t THEN x ELSE tasks[u]
  BY <1>1, <1>2, ExceptSeq DEF x
<1> QED  BY <1>3, <1>4 DEF TaskTypes

\* A receiver takes a task from the trigger's channel.
LEMMA TaskTaken ==
  ASSUME TaskGood, ScheduleTriggered
  PROVE  TaskGood'
<1> DEFINE S == 1..Len(tasks)
           t == Head(taskChan)
<1>1. /\ TaskTypes /\ PushedInv /\ NamedIdsDistinct /\ taskChan \in Seq(S) /\ taskChan # <<>> /\ Distinct(taskChan)
      /\ taskChan' = Tail(taskChan) /\ pushed' = pushed /\ Len(taskChan) <= ChanSize /\ Len(tasks) <= MaxTasks
      /\ ChanSize \in Nat
  BY TriggerAssumption DEF TaskGood, TaskTypes, TaskInv, PushedInv, ScheduleTriggered, ctlVars
<1> HIDE DEF S
<1>2. /\ Tail(taskChan) \in Seq(S) /\ Distinct(Tail(taskChan)) /\ t \in S /\ t \in Range(taskChan)
      /\ Range(Tail(taskChan)) = Range(taskChan) \ {t}
  BY <1>1, TailDistinct
<1>3. Len(taskChan) \in Nat /\ Len(Tail(taskChan)) = Len(taskChan) - 1
  BY <1>1, TailRange
<1>4. \A u \in Range(taskChan) : u \in S /\ tasks[u].at = "chan"
  <2>1. \A i \in 1..Len(taskChan) : tasks[taskChan[i]].at = "chan" /\ taskChan[i] \in S
    BY <1>1, ElementOfSeq DEF TaskGood, TaskInv
  <2> QED  BY <1>1, <2>1, RangeMember
<1>5. PICK a \in {"scheduler", "refused"} : tasks' = [tasks EXCEPT ![t].at = a]
  BY DEF ScheduleTriggered
<1> HIDE DEF t
<1>6. /\ tasks' \in Seq(Task) /\ Len(tasks') = Len(tasks)
      /\ \A u \in S : /\ tasks'[u].id = tasks[u].id /\ tasks'[u].root = tasks[u].root
                      /\ u # t => tasks'[u] = tasks[u]
      /\ \A u \in 1..Len(tasks') : tasks'[u].id \in {0, u}
  BY <1>1, <1>2, <1>5, TaskMoves DEF S
<1>7. pushed' \in Seq(Pushed') /\ PushedInv' /\ NamedIdsDistinct'
  <2>1. Len(tasks') \in Nat /\ Len(tasks) <= Len(tasks')
    BY <1>1, <1>6, LenProperties DEF TaskTypes
  <2>2. \A u \in S : tasks[u].at = "done" => tasks'[u].at = "done"
    <3>1. tasks[t].at # "done"
      BY <1>2, <1>4
    <3> QED  BY <1>6, <3>1
  <2>3. pushed' = pushed
    BY <1>1
  <2> QED  BY <1>1, <1>6, <2>1, <2>2, <2>3, PushedKept DEF S
<1>8. /\ taskChan' \in Seq(S) /\ Len(taskChan') <= ChanSize /\ Distinct(taskChan')
      /\ \A i \in 1..Len(taskChan') : tasks'[taskChan'[i]].at = "chan"
  <2>1. Len(taskChan') <= ChanSize
    BY <1>1, <1>3
  <2>2. \A i \in 1..Len(taskChan') : taskChan'[i] \in Range(taskChan')
    BY <1>1, <1>2, RangeMember
  <2>3. \A i \in 1..Len(taskChan') : taskChan'[i] \in Range(taskChan) /\ taskChan'[i] # t
    BY <1>1, <1>2, <2>2
  <2>4. ASSUME NEW i \in 1..Len(taskChan') PROVE tasks'[taskChan'[i]].at = "chan"
    <3>1. taskChan'[i] \in S /\ taskChan'[i] # t /\ tasks[taskChan'[i]].at = "chan"
      BY <1>4, <2>3
    <3> QED  BY <1>6, <3>1
  <2> QED  BY <1>1, <1>2, <2>1, <2>4
<1> QED  BY <1>1, <1>6, <1>7, <1>8 DEF TaskGood, TaskTypes, TaskInv, PushedInv, S

\* What a processTask hands to the executor.
LEMMA ExecutedCommands ==
  ASSUME TaskTypes, NEW t \in 1..Len(tasks), NEW r
  PROVE  LET ex == Executed(r, t, DecomposeTask(tasks[t]).commands) IN
         /\ ex \in Seq(Pushed) /\ Len(ex) \in Nat
         /\ \A i \in 1..Len(ex) :
               /\ ex[i].task = t
               /\ tasks[t].root = <<>> => ex[i].cmd.id = [of |-> tasks[t].id, part |-> "cmd", n |-> i - 1]
<1> DEFINE c == DecomposeTask(tasks[t]).commands
           ex == Executed(r, t, c)
           name(i) == [of |-> tasks[t].id, part |-> "cmd", n |-> i - 1]
<1>1. tasks[t] \in Task
  BY ElementOfSeq DEF TaskTypes
<1>2. c \in Seq(Command) /\ (tasks[t].root = <<>> => \A i \in 1..Len(c) : c[i].id = name(i))
  BY <1>1, Decomposed
<1> HIDE DEF c, name
<1>3. Len(c) \in Nat /\ \A i \in 1..Len(c) : c[i] \in Command
  BY <1>2, LenProperties, ElementOfSeq
<1> DEFINE f == [i \in 1..Len(c) |-> [task |-> t, cmd |-> c[i]]]
<1>4. f \in [1..Len(c) -> Pushed] /\ \A i \in 1..Len(c) : f[i].task = t /\ f[i].cmd = c[i]
  BY <1>3 DEF Pushed
<1>5. ex = f \/ ex = <<>>
  BY DEF Executed
<1> HIDE DEF f, ex
<1>6. f \in Seq(Pushed) /\ Len(f) = Len(c)
  BY <1>3, <1>4
<1>7. CASE ex = f
  BY <1>2, <1>3, <1>4, <1>6, <1>7 DEF ex, c, name
<1>8. CASE ex = <<>>
  <2>1. ex \in Seq(Pushed) /\ Len(ex) = 0
    BY <1>8
  <2> QED  BY <2>1 DEF ex, c
<1> QED  BY <1>5, <1>7, <1>8

\* A receiver processes a scheduled task.
LEMMA TaskProcessed ==
  ASSUME TaskGood, NEW t \in DOMAIN tasks, NEW r \in Receivers, ProcessTask(r, t)
  PROVE  TaskGood'
<1> DEFINE S == 1..Len(tasks)
           ex == Executed(r, t, DecomposeTask(tasks[t]).commands)
           k == Len(pushed)
           named(i) == tasks'[pushed'[i].task].id # 0 /\ tasks'[pushed'[i].task].root = <<>>
<1>1. /\ TaskTypes /\ PushedInv /\ NamedIdsDistinct /\ taskChan' = taskChan /\ tasks[t].at = "scheduler"
      /\ tasks' = [tasks EXCEPT ![t].at = "done"] /\ pushed' = pushed \o ex
  BY DEF TaskGood, TaskInv, PushedInv, ProcessTask
<1>2. tasks \in Seq(Task) /\ Len(tasks) \in Nat /\ t \in S /\ pushed \in Seq(Pushed) /\ k \in Nat
      /\ DOMAIN pushed = 1..k
  BY <1>1, LenProperties DEF TaskTypes
<1>3. /\ tasks' \in Seq(Task) /\ Len(tasks') = Len(tasks) /\ tasks'[t].at = "done"
      /\ \A u \in S : /\ tasks'[u].id = tasks[u].id /\ tasks'[u].root = tasks[u].root
                      /\ u # t => tasks'[u] = tasks[u]
      /\ \A u \in 1..Len(tasks') : tasks'[u].id \in {0, u}
  BY <1>1, <1>2, TaskMoves
<1>4. /\ ex \in Seq(Pushed) /\ Len(ex) \in Nat
      /\ \A i \in 1..Len(ex) :
            /\ ex[i].task = t
            /\ tasks[t].root = <<>> => ex[i].cmd.id = [of |-> tasks[t].id, part |-> "cmd", n |-> i - 1]
  BY <1>1, <1>2, ExecutedCommands
<1> HIDE DEF ex, k
<1>5. /\ pushed' \in Seq(Pushed) /\ Len(pushed') = k + Len(ex)
      /\ \A i \in 1..(k + Len(ex)) : pushed'[i] = IF i <= k THEN pushed[i] ELSE ex[i - k]
  BY <1>1, <1>2, <1>4, ConcatProperties DEF k
<1>6. DOMAIN pushed' = 1..(k + Len(ex))
  BY <1>5, LenProperties
<1>7. ASSUME NEW i \in 1..k
      PROVE  /\ pushed'[i] = pushed[i] /\ pushed[i].task \in S /\ pushed[i].task # t
             /\ tasks[pushed[i].task].at = "done"
             /\ tasks[pushed[i].task].root = <<>> => pushed[i].cmd.id.of = tasks[pushed[i].task].id
  <2>1. pushed'[i] = pushed[i]
    BY <1>2, <1>4, <1>5
  <2>2. pushed[i] \in Pushed
    BY <1>2, ElementOfSeq DEF k
  <2>3. /\ tasks[pushed[i].task].at = "done"
        /\ tasks[pushed[i].task].root = <<>> => pushed[i].cmd.id.of = tasks[pushed[i].task].id
    BY <1>1 DEF PushedInv, k
  <2> QED  BY <1>1, <2>1, <2>2, <2>3 DEF Pushed
<1>8. ASSUME NEW i \in 1..(k + Len(ex)), i \notin 1..k
      PROVE  /\ pushed'[i].task = t
             /\ tasks[t].root = <<>> => pushed'[i].cmd.id.of = tasks[t].id /\ pushed'[i].cmd.id.n = i - k - 1
  <2>1. i - k \in 1..Len(ex) /\ pushed'[i] = ex[i - k]
    BY <1>2, <1>4, <1>5, <1>8
  <2> DEFINE l == i - k
  <2> HIDE DEF l
  <2>2. /\ ex[l].task = t
        /\ tasks[t].root = <<>> => ex[l].cmd.id = [of |-> tasks[t].id, part |-> "cmd", n |-> l - 1]
    BY <1>4, <2>1 DEF l
  <2> QED  BY <2>1, <2>2 DEF l
<1>9. PushedInv'
  <2>1. ASSUME NEW i \in 1..(k + Len(ex))
        PROVE  /\ tasks'[pushed'[i].task].at = "done"
               /\ tasks'[pushed'[i].task].root = <<>> => pushed'[i].cmd.id.of = tasks'[pushed'[i].task].id
    <3>1. CASE i \in 1..k
      BY <1>3, <1>7, <3>1
    <3>2. CASE i \notin 1..k
      <4>1. pushed'[i].task = t /\ (tasks[t].root = <<>> => pushed'[i].cmd.id.of = tasks[t].id)
        BY <1>8, <3>2
      <4> QED  BY <1>2, <1>3, <4>1
    <3> QED  BY <3>1, <3>2
  <2> QED  BY <1>5, <2>1 DEF PushedInv
<1>10. ASSUME NEW i \in 1..k, NEW j \in 1..(k + Len(ex)), j \notin 1..k, named(i), named(j)
       PROVE  pushed'[i].cmd.id # pushed'[j].cmd.id
  <2>1. pushed'[i].cmd.id.of = tasks[pushed[i].task].id /\ tasks[pushed[i].task].id = pushed[i].task
    <3>1. pushed'[i] = pushed[i] /\ pushed[i].task \in S
      BY <1>7
    <3>2. tasks[pushed[i].task].id # 0 /\ tasks[pushed[i].task].root = <<>>
      BY <1>3, <1>10, <3>1
    <3>3. tasks[pushed[i].task].id \in {0, pushed[i].task}
      BY <1>1, <3>1 DEF TaskTypes
    <3> QED  BY <1>7, <3>1, <3>2, <3>3
  <2>2. pushed'[j].cmd.id.of = tasks[t].id /\ tasks[t].id = t
    <3>1. pushed'[j].task = t
      BY <1>8, <1>10
    <3>2. tasks[t].id # 0 /\ tasks[t].root = <<>>
      BY <1>2, <1>3, <1>10, <3>1
    <3>3. tasks[t].id \in {0, t}
      BY <1>1, <1>2 DEF TaskTypes
    <3> QED  BY <1>8, <1>10, <3>2, <3>3
  <2> QED  BY <1>7, <2>1, <2>2
<1>11. ASSUME NEW i \in 1..k, NEW j \in 1..k, i # j, named(i), named(j)
       PROVE  pushed'[i].cmd.id # pushed'[j].cmd.id
  <2>1. \A l \in {i, j} : tasks[pushed[l].task].id # 0 /\ tasks[pushed[l].task].root = <<>>
    BY <1>3, <1>7, <1>11
  <2>2. pushed[i].cmd.id # pushed[j].cmd.id
    BY <1>1, <1>2, <1>11, <2>1 DEF NamedIdsDistinct
  <2> QED  BY <1>7, <2>2
<1>12. ASSUME NEW i \in 1..(k + Len(ex)), NEW j \in 1..(k + Len(ex)), i \notin 1..k, j \notin 1..k, i # j,
              named(i), named(j)
       PROVE  pushed'[i].cmd.id # pushed'[j].cmd.id
  <2>1. pushed'[i].task = t /\ tasks[t].root = <<>>
    BY <1>2, <1>3, <1>8, <1>12
  <2>2. pushed'[i].cmd.id.n = i - k - 1 /\ pushed'[j].cmd.id.n = j - k - 1
    BY <1>8, <1>12, <2>1
  <2> QED  BY <1>2, <1>4, <1>12, <2>1, <2>2
<1>13. NamedIdsDistinct'
  <2> SUFFICES ASSUME NEW i \in 1..(k + Len(ex)), NEW j \in 1..(k + Len(ex)), i # j, named(i), named(j)
               PROVE  pushed'[i].cmd.id # pushed'[j].cmd.id
    BY <1>6 DEF NamedIdsDistinct
  <2> HIDE DEF named
  <2>1. CASE i \in 1..k /\ j \in 1..k
    BY <1>11, <2>1
  <2>2. CASE i \in 1..k /\ j \notin 1..k
    BY <1>10, <2>2
  <2>3. CASE i \notin 1..k /\ j \in 1..k
    BY <1>10, <2>3
  <2>4. CASE i \notin 1..k /\ j \notin 1..k
    BY <1>12, <2>4
  <2> QED  BY <2>1, <2>2, <2>3, <2>4
<1>14. TaskTypes'
  <2>1. Pushed' = Pushed
    BY <1>3 DEF Pushed
  <2>2. pushed' \in Seq(Pushed')
    BY <1>5, <2>1
  <2> QED  BY <1>1, <1>3, <2>2 DEF TaskTypes
<1>15. Distinct(taskChan') /\ \A i \in 1..Len(taskChan') : tasks'[taskChan'[i]].at = "chan"
  <2>1. Distinct(taskChan) /\ \A i \in 1..Len(taskChan) : tasks[taskChan[i]].at = "chan" /\ taskChan[i] \in S
    BY <1>1, ElementOfSeq DEF TaskGood, TaskTypes, TaskInv
  <2> QED  BY <1>1, <1>3, <2>1
<1> QED  BY <1>9, <1>13, <1>14, <1>15 DEF TaskGood, TaskInv, PushedInv

\* A goroutine of the trigger offers what its source returned.
LEMMA TaskOffered ==
  ASSUME TaskGood, NEW shape \in Shapes, NEW named \in BOOLEAN, Offer(shape, named), pushed' = pushed
  PROVE  TaskGood'
<1> DEFINE n == Len(tasks)
           sent == ~trig.closed /\ Len(taskChan) < ChanSize
           y == [type |-> shape.type, axes |-> shape.axes, root |-> shape.root, origin |-> "trigger",
                 id |-> IF named THEN n + 1 ELSE 0, at |-> IF sent THEN "chan" ELSE "dropped"]
<1>1. n \in Nat /\ n < MaxTasks /\ MaxTasks \in Nat
  BY LenProperties, TriggerAssumption DEF TaskGood, TaskTypes, Offer
<1>2. y \in Task /\ y.id \in {0, n + 1} /\ (sent => y.at = "chan")
  <2>1. shape.type \in CommandType \cup {NoType} /\ shape.axes \in Seq(STRING)
    BY ShapeAssumption
  <2>2. (IF named THEN n + 1 ELSE 0) \in 0..MaxTasks /\ (IF named THEN n + 1 ELSE 0) \in {0, n + 1}
    BY <1>1
  <2>3. (IF sent THEN "chan" ELSE "dropped") \in {"chan", "dropped"}
    BY Zenon
  <2> DEFINE a == IF sent THEN "chan" ELSE "dropped"
             d == IF named THEN n + 1 ELSE 0
  <2>4. sent => a = "chan"
    OBVIOUS
  <2> HIDE DEF a, d, sent, n
  <2> QED  BY <2>1, <2>2, <2>3, <2>4 DEF Task, a, d
<1>3. tasks' = Append(tasks, y) /\ taskChan' = IF sent THEN Append(taskChan, n + 1) ELSE taskChan
  BY DEF Offer
<1> HIDE DEF y
<1> QED  BY <1>1, <1>2, <1>3, TaskAdded

\* Every step keeps the tasks' invariant.
LEMMA TaskKept ==
  ASSUME TaskGood, [Next]_vars
  PROVE  TaskGood'
<1>1. CASE UNCHANGED <<tasks, taskChan, pushed>>
  BY <1>1 DEF TaskGood, TaskTypes, TaskInv, NamedIdsDistinct, Pushed
<1>2. CASE Restart
  BY <1>1, <1>2 DEF Restart, trigVars
<1>3. CASE Boot \/ BootDefault \/ Signal
  BY <1>1, <1>3 DEF Boot, BootDefault, Signal, trigVars
<1>4. CASE Start
  BY <1>1, <1>4 DEF Start, RegisterStep, StartPart, StartFails, StartWatching, StartTrigger, StartLoop, Started,
                    StartNext, TrigStart, trigVars
<1>5. CASE Stop
  BY <1>1, <1>5
     DEF Stop, StopCancel, StopEmit, StopTriggerModule, TriggerModuleStopped, StopModule, ModulesStopped,
         StopLoop, StopTrigger, StopPart, StopNext, TrigStop, TrigStopped, trigVars, ctlVars
<1>6. CASE Exit
  <2>1. tasks' = <<>> /\ taskChan' = <<>> /\ pushed' = <<>>
    BY <1>6 DEF Exit
  <2>2. Len(tasks') = 0 /\ Len(taskChan') = 0 /\ Len(pushed') = 0 /\ DOMAIN pushed' = {}
    BY <2>1
  <2>3. ChanSize \in Nat /\ MaxTasks \in Nat
    BY TriggerAssumption
  <2>4. tasks' \in Seq(Task) /\ taskChan' \in Seq(1..Len(tasks')) /\ pushed' \in Seq(Pushed')
    BY <2>1
  <2>5. TaskTypes'
    BY <2>2, <2>3, <2>4 DEF TaskTypes
  <2>6. TaskInv' /\ NamedIdsDistinct'
    BY <2>2 DEF TaskInv, NamedIdsDistinct, Distinct
  <2> QED  BY <2>5, <2>6 DEF TaskGood
<1>7. CASE (CfgNext \/ WatcherEnds \/ TakeEvent \/ LoopEnds \/ Tick) /\ UNCHANGED <<trigVars, ctlVars>>
  BY <1>1, <1>7 DEF trigVars, ctlVars
<1>8. CASE (ChangeTrigger \/ RunLoop) /\ UNCHANGED ctlVars
  BY <1>1, <1>8 DEF ChangeTrigger, RunLoop, ctlVars
<1>9. CASE RunCheck /\ UNCHANGED ctlVars
  BY <1>1, <1>9, TaskOffered DEF RunCheck, ctlVars
<1>10. CASE TriggerTick
  BY <1>1, <1>10, TaskOffered DEF TriggerTick, TimerCheck, ctlVars
<1>11. ASSUME NEW cmd \in Requests, ExecuteBusinessCommand(cmd) PROVE TaskGood'
  <2> DEFINE n == Len(tasks)
             type == TaskOf(cmd).type
             x == [type |-> type, axes |-> <<>>, root |-> <<>>, origin |-> "business", id |-> n + 1,
                   at |-> "scheduler"]
  <2>1. n \in Nat /\ n < MaxTasks /\ MaxTasks \in Nat
    BY <1>11, LenProperties, TriggerAssumption DEF TaskGood, TaskTypes, ExecuteBusinessCommand
  <2>2. type \in CommandType
    BY DEF TaskOf, CommandType, Motions
  <2>3. tasks' = Append(tasks, x) /\ taskChan' = taskChan /\ pushed' = pushed
    BY <1>11 DEF ExecuteBusinessCommand, ctlVars
  <2> HIDE DEF type
  <2>4. x \in Task /\ x.id = n + 1
    BY <2>1, <2>2 DEF Task
  <2> HIDE DEF x
  <2> QED  BY <2>1, <2>3, <2>4, TaskAdded
<1>12. CASE UNCHANGED vars
  BY <1>1, <1>12 DEF vars, trigVars, ctlVars
<1> QED  BY <1>2, <1>3, <1>4, <1>5, <1>6, <1>7, <1>8, <1>9, <1>10, <1>11, <1>12, TaskTaken, TaskProcessed DEF Next

-----------------------------------------------------------------------------
(* The theorems *)

\* TypeOK is the conjunction of the parts the lemmas above keep.
LEMMA TypeParts == TypeOK <=> CfgTypeOK /\ ELTypeOK /\ LifeType /\ TaskTypes
<1>1. Len(StartOrder) = 14 /\ Len(StopOrder) = 10
  BY DEF StartOrder, StopOrder
<1>2. TrigTypeOK <=> /\ enabled \in BOOLEAN /\ trig \in TrigType
                     /\ crash \in {"no", "send", "close", "decompose"}
                     /\ tasks \in Seq(Task) /\ Len(tasks) <= MaxTasks
                     /\ \A t \in 1..Len(tasks) : tasks[t].id \in {0, t}
                     /\ taskChan \in Seq(1..Len(tasks)) /\ Len(taskChan) <= ChanSize
  BY Zenon DEF TrigTypeOK, TrigType
<1> QED  BY <1>1, <1>2, Zenon DEF TypeOK, LifeType, TaskTypes, Pushed

LEMMA IInvParts == IInv <=> ConfigGood /\ ELTypeOK /\ LifeGood /\ TaskGood
  BY TypeParts, Zenon DEF IInv, ConfigGood, LifeGood, TaskGood

LEMMA IInvInit == Init => IInv
<1> SUFFICES ASSUME Init PROVE IInv
  OBVIOUS
<1>1. ConfigGood
  <2>1. CfgTypeOK
    <3>1. 0 \in 0..MaxVersion /\ Absent \in File /\ Absent.version = 0
      BY MaxVersionAssumption DEF Absent, File
    <3>2. files \in [Paths -> File]
      BY <3>1, ConfigRecords DEF Init, CfgInit
    <3> QED  BY <3>1, <3>2, ConfigRecords DEF Init, CfgInit, CfgTypeOK, Actors, Paths
  <2>3. /\ config = Unread /\ lock = "free" /\ version = 0 /\ main = "boot1"
        /\ \A a \in Actors : pc[a] = "off" /\ got[a] = Unread /\ a # "free"
    BY DEF Init, CfgInit, Actors
  <2>4. \A p \in Paths : files[p].version = 0
    BY ConfigRecords, MaxVersionAssumption DEF Init, CfgInit, Absent
  <2>2. ConfigInv /\ BootInv
    BY <2>3, <2>4, ConfigRecords DEF ConfigInv, BootInv, Paths
  <2> QED  BY <2>1, <2>2 DEF ConfigGood
<1>2. ELTypeOK
  BY EventLoopAssumption DEF Init, ELInit, ELTypeOK
<1>3. LifeGood
  <2>1. trig \in TrigType /\ ~trig.closed
    BY DEF Init, TrigInit, TrigType
  <2>2. LifeType
    <3>1. 1 \in 1..MaxStarts /\ 1 \in 1..14
      BY ControlAssumption
    <3> QED  BY <2>1, <3>1 DEF Init, TrigInit, LifeType
  <2> QED  BY <2>1, <2>2 DEF Init, TrigInit, LifeGood, ShutdownInv, PanicOnlyAfterClose
<1>4. TaskGood
  <2>1. tasks = <<>> /\ taskChan = <<>> /\ pushed = <<>> /\ ChanSize \in Nat /\ MaxTasks \in Nat
    BY TriggerAssumption DEF Init, TrigInit
  <2>2. Len(tasks) = 0 /\ Len(taskChan) = 0 /\ Len(pushed) = 0 /\ DOMAIN pushed = {}
    BY <2>1
  <2>3. tasks \in Seq(Task) /\ taskChan \in Seq(1..Len(tasks)) /\ pushed \in Seq(Pushed)
    BY <2>1
  <2>4. TaskTypes
    BY <2>1, <2>2, <2>3 DEF TaskTypes
  <2>5. TaskInv /\ NamedIdsDistinct
    BY <2>2 DEF TaskInv, NamedIdsDistinct, Distinct
  <2> QED  BY <2>4, <2>5 DEF TaskGood
<1> QED  BY <1>1, <1>2, <1>3, <1>4, IInvParts

LEMMA IInvStep ==
  ASSUME IInv, [Next]_vars
  PROVE  IInv' /\ (main \notin {"hung", "fatal"} => Forward)
<1>1. TypeOK /\ ConfigInv /\ BootInv /\ ELTypeOK /\ LifeGood /\ TaskGood
  BY IInvParts DEF IInv
<1>2. ConfigGood' /\ (main \notin {"hung", "fatal"} => Forward)
  BY <1>1, ConfigKept
<1>3. ELTypeOK' /\ LifeGood' /\ TaskGood'
  BY <1>1, LoopKept, LifeKept, TaskKept
<1>4. (IInv <=> ConfigGood /\ ELTypeOK /\ LifeGood /\ TaskGood)'
  BY IInvParts, PTL
<1> QED  BY <1>2, <1>3, <1>4

LEMMA ControlInvariant == Spec => []IInv
<1>1. IInv /\ [Next]_vars => IInv'
  BY IInvStep
<1> QED  BY <1>1, IInvInit, PTL DEF Spec

\* Every variable of the program (main.go, manager.go, trigger.go, eventloop.go) keeps its type:
\* the channel and the event queue stay within their capacities, and what the channel and the
\* executor's queue refer to are tasks that were made.
THEOREM ControlTypeCorrect == Spec => []TypeOK
<1>1. IInv => TypeOK
  BY DEF IInv
<1> QED  BY <1>1, ControlInvariant, PTL

\* The trigger's Stop is called by EventLoop.Stop and by ApplicationManager.Stop and sends come from
\* two goroutines (trigger.go:57, 282): its channel is never closed twice, and the program panics
\* over a send only while it is being shut down.
THEOREM PanicNeedsShutdown == Spec => []PanicOnlyAfterClose
<1>1. IInv => PanicOnlyAfterClose
  BY DEF IInv
<1> QED  BY <1>1, ControlInvariant, PTL

\* Whichever goroutines decompose tasks (tasknode_decomposer.go:55), and whatever a tree is decomposed into, two
\* commands of named tasks without a tree never share an ID in the executor's queue.
THEOREM IdsTellCommandsApart == Spec => []NamedIdsDistinct
<1>1. IInv => NamedIdsDistinct
  BY DEF IInv
<1> QED  BY <1>1, ControlInvariant, PTL

\* LoadConfig, SetConfig, UpdateConfig and the watcher (config/manager.go) never replace the
\* configuration in memory by an older one of the same file, however they interleave with edits of
\* the files and redirect the path; only ImportConfig may save a stale copy.
THEOREM ConfigurationAdvances == Spec => ConfigNeverGoesBack
<1>1. IInv /\ [Next]_vars
        => [main \notin {"hung", "fatal"} /\ config'.from = config.from
              => config'.version >= config.version \/ SaveImported("caller")]_vars
  BY IInvStep DEF Forward
<1> QED  BY <1>1, ControlInvariant, PTL DEF Spec, ConfigNeverGoesBack
=============================================================================
