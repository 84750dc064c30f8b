---------------------------- MODULE ConfigManager ----------------------------
(***************************************************************************)
(* config/manager.go: the configuration in memory, the files it may come   *)
(* from, and the goroutines that load, save and watch it.  A configuration *)
(* is its version: every edit of a file, and every update through the      *)
(* manager, makes the next one, so of two versions that come from one file *)
(* the smaller is the older configuration.                                 *)
(***************************************************************************)
EXTENDS Naturals

CONSTANTS MaxVersion   \* bound on the versions made

ASSUME MaxVersionAssumption == MaxVersion \in Nat \ {0}

VARIABLES files,     \* each file: is it there, does it parse and validate, its version
          newer,     \* its ModTime is after lastModified
          path,      \* cm.configPath
          config,    \* cm.config: its version, and the file it was read from or saved to
          lock,      \* the holder of configLock, or "free"
          pc,        \* where the watching goroutine and a caller of the manager are
          arg,       \* the path LoadConfig was called with
          got,       \* what LoadConfig has read, or GetConfig returned, and is not yet stored
          version    \* the versions made so far

cfgVars == <<files, newer, path, config, lock, pc, arg, got, version>>

Actors == {"watcher", "caller"}
Paths == {"main", "other"}   \* the path main gave, and another one
File == [there : BOOLEAN, valid : BOOLEAN, version : 0..MaxVersion]
Config == [version : 0..MaxVersion, from : Paths]

Unread == [version |-> 0, from |-> "main"]
Good(v) == [there |-> TRUE, valid |-> TRUE, version |-> v]
Absent == [there |-> FALSE, valid |-> FALSE, version |-> 0]

CfgTypeOK ==
    /\ files \in [Paths -> File]
    /\ newer \in [Paths -> BOOLEAN]
    /\ path \in Paths
    /\ config \in Config
    /\ lock \in Actors \cup {"free"}
    /\ pc \in [Actors -> {"off", "idle", "reload", "redirect", "load", "store", "notify", "set", "copy", "save", "hung"}]
    /\ arg \in [Actors -> Paths]
    /\ got \in [Actors -> Config]
    /\ version \in 0..MaxVersion

CfgInit ==
    /\ files \in [Paths -> {Absent, Good(0)}]
    /\ newer = [p \in Paths |-> FALSE] /\ path = "main" /\ config = Unread /\ lock = "free" /\ version = 0
    /\ pc = [a \in Actors |-> "off"] /\ arg = [a \in Actors |-> "main"] /\ got = [a \in Actors |-> Unread]

Goto(a, l) == pc' = [pc EXCEPT ![a] = l]

\* External: somebody saves a file, well or badly formed.
Edit(p, valid) ==
    /\ version < MaxVersion
    /\ version' = version + 1
    /\ files' = [files EXCEPT ![p] = [there |-> TRUE, valid |-> valid, version |-> version + 1]]
    /\ newer' = [newer EXCEPT ![p] = TRUE]
    /\ UNCHANGED <<path, config, lock, pc, arg, got>>

Loadable(p) == files[p].there /\ files[p].valid   \* ReadFile, Unmarshal and validateConfig succeed

\* Reload evaluates cm.configPath for the call of LoadConfig, without the lock, ...
Reload(a) == /\ pc[a] = "reload" /\ arg' = [arg EXCEPT ![a] = path] /\ Goto(a, "redirect")
             /\ UNCHANGED <<files, newer, path, config, lock, got, version>>

\* ... and LoadConfig assigns its path to cm.configPath, also without it, before anything can fail.
Redirect(a) == /\ pc[a] = "redirect" /\ path' = arg[a] /\ Goto(a, "load")
               /\ arg' = [arg EXCEPT ![a] = "main"]
               /\ UNCHANGED <<files, newer, config, lock, got, version>>

\* Bug for a mutant: the file is read before the lock is taken.
LoadReadUnlocked(a) ==
    /\ pc[a] = "load"
    /\ IF Loadable(path)
       THEN got' = [got EXCEPT ![a] = [version |-> files[path].version, from |-> path]] /\ Goto(a, "store")
       ELSE got' = got /\ Goto(a, "idle")
    /\ UNCHANGED <<files, newer, path, config, lock, arg, version>>

\* LoadConfig under configLock: it reads, parses and validates the file that cm.configPath names
\* now; an error keeps the configuration as it was, and the path as it is.
LoadRead(a) ==
    /\ pc[a] = "load" /\ lock = "free"
    /\ IF Loadable(path)
       THEN /\ lock' = a /\ Goto(a, "store")
            /\ got' = [got EXCEPT ![a] = [version |-> files[path].version, from |-> path]]
       ELSE lock' = lock /\ got' = got /\ Goto(a, "idle")
    /\ UNCHANGED <<files, newer, path, config, arg, version>>

\* ... stores it and takes the time of day for lastModified, whatever happened to the files since.
LoadStore(a) ==
    /\ pc[a] = "store"
    /\ config' = got[a] /\ newer' = [p \in Paths |-> FALSE] /\ lock' = "free"
    /\ got' = [got EXCEPT ![a] = Unread]
    /\ \/ a = "watcher" /\ Goto(a, "notify")
       \/ a = "caller" /\ \E l \in {"idle", "copy"} : Goto(a, l)   \* LoadConfig, or ImportConfig
    /\ UNCHANGED <<files, path, arg, version>>

\* ImportConfig's GetConfig: by then the configuration may be one that somebody else loaded.
CopyConfig(a) == /\ pc[a] = "copy" /\ lock = "free" /\ got' = [got EXCEPT ![a] = config] /\ Goto(a, "save")
                 /\ UNCHANGED <<files, newer, path, config, lock, arg, version>>

\* SetConfig, under configLock: a configuration that does not validate, or a file that cannot be
\* written, is an error.
SetFails(a) == /\ pc[a] \in {"set", "save"} /\ lock = "free" /\ Goto(a, "idle")
               /\ got' = [got EXCEPT ![a] = Unread]
               /\ UNCHANGED <<files, newer, path, config, lock, arg, version>>

\* Otherwise the file and the memory are changed and notifyWatchers calls GetConfig, whose RLock
\* waits for the lock that SetConfig holds: the caller never gets further.
Save(a, v) ==
    /\ lock = "free" /\ lock' = a /\ Goto(a, "hung")
    /\ files' = [files EXCEPT ![path] = Good(v)] /\ config' = [version |-> v, from |-> path]
    /\ newer' = [p \in Paths |-> FALSE] /\ got' = [got EXCEPT ![a] = Unread]
    /\ UNCHANGED <<path, arg>>

\* SetConfig of a configuration the caller made, ...
SetConfig(a) == pc[a] = "set" /\ version < MaxVersion /\ version' = version + 1 /\ Save(a, version + 1)

\* ... and ImportConfig's, of the copy it took.
SaveImported(a) == pc[a] = "save" /\ version' = version /\ Save(a, got[a].version)

\* UpdateDeviceConfig, UpdateAxisConfig, Add-, Update-, RemoveTaskTemplate: change the maps in
\* memory under configLock, then SetConfig locks it a second time.
UpdateInPlace(a) ==
    /\ pc[a] = "idle" /\ lock = "free" /\ version < MaxVersion
    /\ version' = version + 1 /\ config' = [config EXCEPT !.version = version + 1]
    /\ lock' = a /\ Goto(a, "hung")
    /\ UNCHANGED <<files, newer, path, arg, got>>

\* checkFileChanges, on a tick: reads cm.configPath, the ModTime and lastModified without the lock.
CheckFileChanges == /\ pc["watcher"] = "idle" /\ files[path].there /\ newer[path]
                    /\ Goto("watcher", "reload")
                    /\ UNCHANGED <<files, newer, path, config, lock, arg, got, version>>

\* Bug for a mutant: the watching goroutine ends after its first reload.
NotifyWatchersOnce == /\ pc["watcher"] = "notify" /\ lock = "free"
                      /\ Goto("watcher", "off")
                      /\ UNCHANGED <<files, newer, path, config, lock, arg, got, version>>

\* notifyWatchers after a reload: GetConfig, then a goroutine per watcher, which only logs.
NotifyWatchers == /\ pc["watcher"] = "notify" /\ lock = "free"
                  /\ Goto("watcher", "idle")
                  /\ UNCHANGED <<files, newer, path, config, lock, arg, got, version>>

\* A caller of the manager enters Reload, LoadConfig or ImportConfig of a path, or SetConfig.
CallerEnters == /\ pc["caller"] = "idle"
                /\ \/ \E l \in {"reload", "set"} : Goto("caller", l) /\ UNCHANGED arg
                   \/ \E p \in Paths : Goto("caller", "redirect") /\ arg' = [arg EXCEPT !["caller"] = p]
                /\ UNCHANGED <<files, newer, path, config, lock, got, version>>

\* The steps inside a call that its goroutine takes without waiting for anybody but the lock.
Inside == \/ \E a \in Actors : Reload(a) \/ Redirect(a) \/ LoadRead(a) \/ LoadStore(a) \/ CopyConfig(a)
          \/ NotifyWatchers

CfgNext ==
    \/ \E p \in Paths, valid \in BOOLEAN : Edit(p, valid)
    \/ Inside
    \/ SetFails("caller") \/ SetConfig("caller") \/ SaveImported("caller") \/ UpdateInPlace("caller")
    \/ CheckFileChanges \/ CallerEnters
=============================================================================
