--------------------------- MODULE ResourceManager ---------------------------
(***************************************************************************)
(* hal/resource_manager.go: the table of axes, devices and safety          *)
(* resources, and the tasks that allocate several of them one by one.      *)
(*                                                                         *)
(* A requirement is a map from resource types to lists of IDs.  Go visits  *)
(* the types of a map in any order and the list of a type from its head:   *)
(* todo[t] is what is left of the loop task t is in, cur[t] the type it    *)
(* is at.  Every resource is visited under resourcesLock, so one visit is  *)
(* one step, and steps of other tasks come between two visits.             *)
(***************************************************************************)
EXTENDS Naturals, Sequences, FiniteSets

CONSTANTS Tasks,       \* callers of AllocateForTask and ReleaseForTask
          Direct,      \* those among them that call Allocate and Release instead
          Types, Ids,  \* resource types and IDs
          Configured,  \* the resources of the configuration
          Needs,       \* requiredResources of each task
          NoType       \* no type is being visited

\* A requirement names a resource at most once; a direct caller names one.
ASSUME ResourceAssumption ==
    /\ Direct \subseteq Tasks
    /\ Configured \subseteq Types \X Ids
    /\ Needs \in [Tasks -> [Types -> Seq(Ids)]]
    /\ \A t \in Tasks, ty \in Types : \A i, j \in DOMAIN Needs[t][ty] :
          Needs[t][ty][i] = Needs[t][ty][j] => i = j
    /\ \A t \in Direct : \E ty \in Types, id \in Ids :
          Needs[t] = [x \in Types |-> IF x = ty THEN <<id>> ELSE <<>>]
    /\ NoType \notin Types

VARIABLES resources,   \* what registerResource has put into the table
          allocated,   \* the resources whose Allocated flag is set
          pc, todo, cur,
          rmStopped    \* history: Stop has released everything by force

rmVars == <<resources, allocated, pc, todo, cur, rmStopped>>

RMTypeOK ==
    /\ resources \subseteq Configured
    /\ allocated \subseteq resources
    /\ pc \in [Tasks -> {"idle", "check", "allocate", "rollback", "held", "release"}]
    /\ todo \in [Tasks -> [Types -> Seq(Ids)]]
    /\ cur \in [Tasks -> Types \cup {NoType}]
    /\ rmStopped \in BOOLEAN

Nothing == [ty \in Types |-> <<>>]

RMInit ==
    /\ resources = {} /\ allocated = {} /\ rmStopped = FALSE
    /\ pc = [t \in Tasks |-> "idle"]
    /\ todo = [t \in Tasks |-> Nothing]
    /\ cur = [t \in Tasks |-> NoType]

\* What a requirement, or the rest of one, names.
Named(need) == {r \in Types \X Ids : \E i \in DOMAIN need[r[1]] : need[r[1]][i] = r[2]}

\* Task t enters a loop over need.
Enter(t, label, need) ==
    /\ pc' = [pc EXCEPT ![t] = label]
    /\ todo' = [todo EXCEPT ![t] = need]
    /\ cur' = [cur EXCEPT ![t] = NoType]

\* The loop of t is at a resource of type ty: it leaves a type only at the end of its list.
AtType(t, ty) == /\ todo[t][ty] # <<>>
                 /\ \A c \in {cur[t]} \ {ty, NoType} : todo[t][c] = <<>>

Advance(t, ty) == /\ todo' = [todo EXCEPT ![t][ty] = Tail(@)]
                  /\ cur' = [cur EXCEPT ![t] = ty]

Resource(t, ty) == <<ty, Head(todo[t][ty])>>

LoopDone(t) == todo[t] = Nothing

-----------------------------------------------------------------------------
(* Allocate and Release.                                                   *)

\* Bug for a mutant: a resource that is not in the table is taken for free.
CanAllocateUnknown(r) == r \notin allocated

CanAllocate(r) == r \in resources /\ r \notin allocated

\* Release fails for a resource that is unknown or free, and changes nothing then.
Released(r) == allocated \ {r}

\* A caller of AllocateResource and ReleaseResource.
AllocateResource(t) ==
    /\ pc[t] = "idle" /\ t \in Direct
    /\ \E r \in Named(Needs[t]) : CanAllocate(r) /\ allocated' = allocated \cup {r}
    /\ pc' = [pc EXCEPT ![t] = "held"]
    /\ UNCHANGED <<resources, todo, cur, rmStopped>>

ReleaseResource(t) ==
    /\ pc[t] = "held" /\ t \in Direct
    /\ \E r \in Named(Needs[t]) : allocated' = Released(r)
    /\ pc' = [pc EXCEPT ![t] = "idle"]
    /\ UNCHANGED <<resources, todo, cur, rmStopped>>

-----------------------------------------------------------------------------
(* AllocateForTask: a loop that checks, a loop that allocates, and on a    *)
(* failure the loop of rollbackAllocation.                                 *)

AllocateForTask(t) ==
    /\ pc[t] = "idle" /\ t \notin Direct
    /\ Enter(t, "check", Needs[t])
    /\ UNCHANGED <<resources, allocated, rmStopped>>

CheckOne(t) ==
    /\ pc[t] = "check"
    /\ \E ty \in Types :
          /\ AtType(t, ty)
          /\ IF Resource(t, ty) \in allocated
             THEN Enter(t, "idle", Nothing)
             ELSE Advance(t, ty) /\ UNCHANGED pc
    /\ UNCHANGED <<resources, allocated, rmStopped>>

CheckDone(t) ==
    /\ pc[t] = "check" /\ LoopDone(t)
    /\ Enter(t, "allocate", Needs[t])
    /\ UNCHANGED <<resources, allocated, rmStopped>>

\* Bug for a mutant: the loop over the types ends at the failed one.
RollbackFailedTypeOnly(t, ty) ==
    [x \in Types |-> IF x = ty THEN SubSeq(Needs[t][ty], 1, Len(Needs[t][ty]) - Len(todo[t][ty]))
                               ELSE <<>>]

\* What rollbackAllocation visits: the IDs before the failed one in its type, and all IDs
\* of every other type, those that were not allocated yet among them.
Rollback(t, ty) ==
    [Needs[t] EXCEPT ![ty] = SubSeq(@, 1, Len(@) - Len(todo[t][ty]))]

\* Bug for a mutant: the second loop trusts the first one.
AllocateOneTrusting(t) ==
    /\ pc[t] = "allocate"
    /\ \E ty \in Types :
          /\ AtType(t, ty)
          /\ allocated' = allocated \cup ({Resource(t, ty)} \cap resources)
          /\ Advance(t, ty) /\ UNCHANGED pc
    /\ UNCHANGED <<resources, rmStopped>>

AllocateOne(t) ==
    /\ pc[t] = "allocate"
    /\ \E ty \in Types :
          /\ AtType(t, ty)
          /\ IF CanAllocate(Resource(t, ty))
             THEN /\ allocated' = allocated \cup {Resource(t, ty)}
                  /\ Advance(t, ty) /\ UNCHANGED pc
             ELSE Enter(t, "rollback", Rollback(t, ty)) /\ UNCHANGED allocated
    /\ UNCHANGED <<resources, rmStopped>>

AllocateDone(t) ==
    /\ pc[t] = "allocate" /\ LoopDone(t)
    /\ Enter(t, "held", Nothing)
    /\ UNCHANGED <<resources, allocated, rmStopped>>

ReleaseForTask(t) ==
    /\ pc[t] = "held" /\ t \notin Direct
    /\ Enter(t, "release", Needs[t])
    /\ UNCHANGED <<resources, allocated, rmStopped>>

\* One visit of the loops of ReleaseForTask and rollbackAllocation.
ReleaseOne(t) ==
    /\ pc[t] \in {"rollback", "release"}
    /\ \E ty \in Types :
          AtType(t, ty) /\ allocated' = Released(Resource(t, ty)) /\ Advance(t, ty)
    /\ UNCHANGED <<resources, pc, rmStopped>>

ReleaseDone(t) ==
    /\ pc[t] \in {"rollback", "release"} /\ LoopDone(t)
    /\ Enter(t, "idle", Nothing)
    /\ UNCHANGED <<resources, allocated, rmStopped>>

TaskStep(t) ==
    \/ AllocateResource(t) \/ ReleaseResource(t)
    \/ AllocateForTask(t) \/ CheckOne(t) \/ CheckDone(t) \/ AllocateOne(t) \/ AllocateDone(t)
    \/ ReleaseForTask(t) \/ ReleaseOne(t) \/ ReleaseDone(t)

\* initializeHardwareResources: every resource is registered, free.
RMStart == /\ resources' = Configured /\ allocated' = allocated \ Configured
           /\ UNCHANGED <<pc, todo, cur, rmStopped>>

RMStop == /\ allocated' = {} /\ rmStopped' = TRUE
          /\ UNCHANGED <<resources, pc, todo, cur>>

-----------------------------------------------------------------------------
(* What a task has allocated and not given back, as far as it knows.       *)
Claims(t) ==
    CASE pc[t] = "held" -> Named(Needs[t])
      [] pc[t] = "allocate" -> Named(Needs[t]) \ Named(todo[t])
      [] pc[t] \in {"rollback", "release"} -> Named(todo[t])
      [] OTHER -> {}

\* A resource that is marked allocated is one that some task will release: neither the
\* rollback of a failed AllocateForTask nor ReleaseForTask forgets one, whatever the order
\* in which Go visits the types and whoever else releases it in between.
NoOrphan == allocated \subseteq UNION {Claims(t) : t \in Tasks}

OneType(t) == \A a, b \in Types : Needs[t][a] # <<>> /\ Needs[t][b] # <<>> => a = b

\* Resources that only requirements of one type name.
Guarded == {r \in Types \X Ids : \A t \in Tasks : r \in Named(Needs[t]) => OneType(t)}

\* Two tasks never have the same resource, and what a task has stays marked, although the
\* check and the allocation are separate loops; until Stop releases by force.  It holds of
\* resources in requirements of one type: the rollback of a requirement of several types
\* also releases resources it never allocated, which may belong to another task.
Exclusive ==
    ~rmStopped => \A t \in Tasks : \A r \in Claims(t) \cap Guarded :
                     /\ r \in allocated
                     /\ \A u \in Tasks \ {t} : r \notin Claims(u)
=============================================================================
