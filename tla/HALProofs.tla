------------------------------ MODULE HALProofs ------------------------------
(***************************************************************************)
(* Proofs about the hardware abstraction layer, for any tasks, resources   *)
(* and requirements and any devices and writers: the layer is type-correct,*)
(* no allocated resource is forgotten, resources in requirements of one    *)
(* type have one owner, and what a device reports is what happened to it.  *)
(***************************************************************************)
EXTENDS HAL, SequenceLemmas

-----------------------------------------------------------------------------
(* Requirements and what is left of them *)

Requirement == [Types -> Seq(Ids)]

\* s is the end of list n: what a loop over n has left.
EndOf(s, n) == /\ Len(s) <= Len(n)
               /\ \A i \in 1..Len(s) : s[i] = n[i + Len(n) - Len(s)]

\* A resource is named when its ID is in the list of its type.
LEMMA NamedMember ==
  ASSUME NEW need \in Requirement, NEW ty \in Types, NEW id \in Ids
  PROVE  <<ty, id>> \in Named(need) <=> \E i \in 1..Len(need[ty]) : need[ty][i] = id
<1>1. DOMAIN need[ty] = 1..Len(need[ty])
  BY LenProperties DEF Requirement
<1> QED  BY <1>1 DEF Named

\* Nothing names no resource.
LEMMA NamedNothing == Nothing \in Requirement /\ Named(Nothing) = {}
<1>1. Nothing \in Requirement
  BY EmptySeq DEF Nothing, Requirement
<1>2. \A ty \in Types : Len(Nothing[ty]) = 0
  BY DEF Nothing
<1>3. ASSUME NEW r \in Named(Nothing) PROVE FALSE
  <2>1. DOMAIN Nothing[r[1]] = {}
    BY <1>3 DEF Named, Nothing
  <2> QED  BY <1>3, <2>1 DEF Named
<1> QED  BY <1>1, <1>3

\* One visit of a loop: the visited resource, and no other, leaves what is left to visit.
LEMMA NamedTail ==
  ASSUME NEW need \in Requirement, NEW ty \in Types, need[ty] # <<>>, Distinct(need[ty])
  PROVE  LET rest == [need EXCEPT ![ty] = Tail(@)] IN
         /\ rest \in Requirement
         /\ Head(need[ty]) \in Ids
         /\ Distinct(rest[ty])
         /\ Named(rest) = Named(need) \ {<<ty, Head(need[ty])>>}
<1> DEFINE s == need[ty]
           rest == [need EXCEPT ![ty] = Tail(@)]
<1>1. s \in Seq(Ids) /\ s # <<>>
  BY DEF Requirement
<1>2. /\ Head(s) \in Ids /\ Tail(s) \in Seq(Ids) /\ Len(Tail(s)) = Len(s) - 1
      /\ \A i \in 1..Len(Tail(s)) : Tail(s)[i] = s[i + 1]
  BY <1>1, HeadTailProperties
<1>3. Head(s) = s[1] /\ Len(s) \in Nat \ {0}
  BY <1>1, EmptySeq
<1>4. rest \in Requirement /\ rest[ty] = Tail(s) /\ \A x \in Types \ {ty} : rest[x] = need[x]
  BY <1>2 DEF Requirement
<1>5. Distinct(rest[ty])
  BY <1>2, <1>3, <1>4 DEF Distinct
<1>6. ASSUME NEW x \in Types, NEW id \in Ids
      PROVE <<x, id>> \in Named(rest) <=> <<x, id>> \in Named(need) /\ ~(x = ty /\ id = Head(s))
  <2>0. /\ <<x, id>> \in Named(need) <=> \E i \in 1..Len(need[x]) : need[x][i] = id
        /\ <<x, id>> \in Named(rest) <=> \E i \in 1..Len(rest[x]) : rest[x][i] = id
    <3> HIDE DEF rest
    <3> QED  BY <1>4, NamedMember
  <2> HIDE DEF rest
  <2>1. CASE x # ty
    BY <1>4, <2>0, <2>1
  <2>2. CASE x = ty
    <3>1. ASSUME NEW i \in 1..Len(Tail(s)), Tail(s)[i] = id
          PROVE (\E k \in 1..Len(s) : s[k] = id) /\ id # Head(s)
      <4>1. i + 1 \in 1..Len(s) /\ s[i + 1] = id /\ 1 \in 1..Len(s) /\ i + 1 # 1
        BY <1>2, <1>3, <3>1
      <4> QED  BY <1>3, <4>1 DEF Distinct
    <3>2. ASSUME NEW k \in 1..Len(s), s[k] = id, id # Head(s)
          PROVE \E i \in 1..Len(Tail(s)) : Tail(s)[i] = id
      <4>1. k - 1 \in 1..Len(Tail(s)) /\ Tail(s)[k - 1] = s[(k - 1) + 1]
        BY <1>2, <1>3, <3>2
      <4>2. (k - 1) + 1 = k
        BY <1>3
      <4> QED  BY <3>2, <4>1, <4>2
    <3> QED  BY <1>4, <2>0, <2>2, <3>1, <3>2
  <2> QED  BY <2>1, <2>2
<1>7. Named(rest) = Named(need) \ {<<ty, Head(s)>>}
  <2> HIDE DEF rest
  <2>1. Named(need) \subseteq Types \X Ids /\ Named(rest) \subseteq Types \X Ids
    BY DEF Named
  <2>2. ASSUME NEW r \in Types \X Ids
        PROVE r \in Named(rest) <=> r \in Named(need) /\ r # <<ty, Head(s)>>
    BY <1>2, <1>6
  <2> QED  BY <2>1, <2>2
<1> QED  BY <1>2, <1>4, <1>5, <1>7

\* After one more visit what is left is still the end of the list.
LEMMA EndOfTail ==
  ASSUME NEW s \in Seq(Ids), NEW n \in Seq(Ids), s # <<>>, EndOf(s, n)
  PROVE  EndOf(Tail(s), n)
<1>1. /\ Len(Tail(s)) = Len(s) - 1 /\ Len(s) \in Nat \ {0} /\ Len(n) \in Nat
      /\ \A i \in 1..Len(Tail(s)) : Tail(s)[i] = s[i + 1]
  BY HeadTailProperties, EmptySeq, LenProperties
<1> DEFINE ls == Len(s)
           ln == Len(n)
           lt == Len(Tail(s))
<1>2. ls \in Nat \ {0} /\ ln \in Nat /\ lt = ls - 1 /\ ls <= ln
  BY <1>1 DEF EndOf
<1>3. \A i \in 1..ls : s[i] = n[i + ln - ls]
  BY DEF EndOf
<1> HIDE DEF ls, ln, lt
<1>4. \A i \in 1..lt : i + 1 \in 1..ls /\ (i + 1) + ln - ls = i + ln - lt
  BY <1>2
<1>5. \A i \in 1..lt : s[i + 1] = n[i + ln - lt]
  BY <1>3, <1>4
<1>6. lt <= ln
  BY <1>2
<1> QED  BY <1>1, <1>5, <1>6 DEF EndOf, ls, ln, lt

\* An ID occurs in a list.
Occurs(id, s) == \E i \in 1..Len(s) : s[i] = id

\* The beginning of a list that a loop has behind it holds what is not in the end it has left.
LEMMA Behind ==
  ASSUME NEW n \in Seq(Ids), NEW e \in Seq(Ids), Distinct(n), EndOf(e, n)
  PROVE  LET p == SubSeq(n, 1, Len(n) - Len(e)) IN
         /\ p \in Seq(Ids) /\ Distinct(p)
         /\ \A id \in Ids : Occurs(id, p) <=> Occurs(id, n) /\ ~Occurs(id, e)
<1> DEFINE ln == Len(n)
           le == Len(e)
           k == ln - le
           p == SubSeq(n, 1, k)
<1>1. /\ ln \in Nat /\ le \in Nat /\ le <= ln /\ \A i \in 1..ln : n[i] \in Ids
  BY LenProperties, ElementOfSeq DEF EndOf
<1>2. k \in Nat /\ k <= ln /\ ln = k + le
  BY <1>1
<1>3. /\ \A j \in 1..le : e[j] = n[j + ln - le]
      /\ \A i, j \in 1..ln : n[i] = n[j] => i = j
  BY DEF EndOf, Distinct
<1> HIDE DEF k
<1>4. 1 \in Int /\ k \in Int /\ \A i \in 1..k : n[i] \in Ids
  BY <1>1, <1>2
<1>5. p \in Seq(Ids) /\ Len(p) = (IF 1 <= k THEN k - 1 + 1 ELSE 0) /\ \A i \in 1..(k - 1 + 1) : p[i] = n[1 + i - 1]
  BY <1>4, SubSeqProperties
<1> HIDE DEF p, ln, le
<1>6. Len(p) = k /\ \A i \in 1..k : p[i] = n[i]
  BY <1>2, <1>5
<1>7. \A j \in 1..le : k + j \in 1..ln /\ e[j] = n[k + j]
  <2>1. \A j \in 1..le : k + j \in 1..ln /\ j + ln - le = k + j
    BY <1>1, <1>2
  <2> QED  BY <1>3, <2>1
<1>8. \A i \in 1..k : i \in 1..ln
  BY <1>1, <1>2
<1>9. Distinct(p)
  BY <1>3, <1>6, <1>8 DEF Distinct
<1>10. ASSUME NEW id \in Ids PROVE Occurs(id, p) <=> Occurs(id, n) /\ ~Occurs(id, e)
  <2>1. ASSUME NEW i \in 1..k, p[i] = id, NEW j \in 1..le, e[j] = id PROVE FALSE
    <3>1. n[i] = n[k + j] /\ i # k + j
      BY <1>1, <1>2, <1>6, <1>7, <2>1
    <3> QED  BY <1>3, <1>7, <1>8, <3>1
  <2>2. ASSUME NEW i \in 1..ln, n[i] = id, i \notin 1..k PROVE \E j \in 1..le : e[j] = id
    <3>1. i - k \in 1..le /\ k + (i - k) = i
      BY <1>1, <1>2, <2>2
    <3> QED  BY <1>7, <2>2, <3>1
  <2>3. /\ Occurs(id, p) <=> \E i \in 1..k : n[i] = id
        /\ Occurs(id, n) <=> \E i \in 1..ln : n[i] = id
        /\ Occurs(id, e) <=> \E i \in 1..le : e[i] = id
    BY <1>6 DEF Occurs, ln, le
  <2> QED  BY <1>6, <1>8, <2>1, <2>2, <2>3
<1> USE DEF p, k, ln, le
<1> QED  BY <1>5, <1>9, <1>10

\* rollbackAllocation visits everything allocated so far, and in the type where the allocation
\* failed nothing else.
LEMMA NamedRollback ==
  ASSUME NEW need \in Requirement, NEW rest \in Requirement, NEW ty \in Types,
         Distinct(need[ty]), EndOf(rest[ty], need[ty])
  PROVE  LET back == [need EXCEPT ![ty] = SubSeq(@, 1, Len(@) - Len(rest[ty]))] IN
         /\ back \in Requirement
         /\ \A x \in Types \ {ty} : back[x] = need[x]
         /\ Distinct(back[ty])
         /\ Named(need) \ Named(rest) \subseteq Named(back)
         /\ Named(back) \subseteq Named(need)
         /\ \A r \in Named(back) : r[1] = ty => r \notin Named(rest)
<1> DEFINE p == SubSeq(need[ty], 1, Len(need[ty]) - Len(rest[ty]))
           back == [need EXCEPT ![ty] = SubSeq(@, 1, Len(@) - Len(rest[ty]))]
<1>1. /\ p \in Seq(Ids) /\ Distinct(p)
      /\ \A id \in Ids : Occurs(id, p) <=> Occurs(id, need[ty]) /\ ~Occurs(id, rest[ty])
  <2>1. need[ty] \in Seq(Ids) /\ rest[ty] \in Seq(Ids)
    BY DEF Requirement
  <2> QED  BY <2>1, Behind
<1>2. back \in Requirement /\ back[ty] = p /\ \A x \in Types \ {ty} : back[x] = need[x]
  BY <1>1 DEF Requirement
<1> HIDE DEF back, p
<1>3. ASSUME NEW r \in Types \X Ids
      PROVE /\ r \in Named(need) <=> Occurs(r[2], need[r[1]])
            /\ r \in Named(rest) <=> Occurs(r[2], rest[r[1]])
            /\ r \in Named(back) <=> Occurs(r[2], back[r[1]])
  <2>1. r = <<r[1], r[2]>> /\ r[1] \in Types /\ r[2] \in Ids
    OBVIOUS
  <2> QED  BY <1>2, <2>1, NamedMember DEF Occurs
<1>4. /\ Named(need) \subseteq Types \X Ids /\ Named(rest) \subseteq Types \X Ids
      /\ Named(back) \subseteq Types \X Ids
  BY DEF Named
<1>5. ASSUME NEW r \in Types \X Ids
      PROVE /\ r \in Named(need) \ Named(rest) => r \in Named(back)
            /\ r \in Named(back) => r \in Named(need)
            /\ r \in Named(back) /\ r[1] = ty => r \notin Named(rest)
  <2>1. r[1] \in Types /\ r[2] \in Ids
    OBVIOUS
  <2> QED  BY <1>1, <1>2, <1>3, <2>1
<1>6. /\ Named(need) \ Named(rest) \subseteq Named(back) /\ Named(back) \subseteq Named(need)
      /\ \A r \in Named(back) : r[1] = ty => r \notin Named(rest)
  BY <1>4, <1>5
<1>7. Distinct(back[ty])
  BY <1>1, <1>2
<1> USE DEF back
<1> QED  BY <1>2, <1>6, <1>7

-----------------------------------------------------------------------------
(* Who has what *)

\* Tasks come only once the layer has been started.
StartInv == ~Serving => allocated = {} /\ \A t \in Tasks : pc[t] = "idle"

\* A direct caller is in no loop.
DirectInv == \A t \in Direct : pc[t] \in {"idle", "held"}

\* What a loop has left names a resource once, and while resources are being allocated it is
\* the end of the requirement.
LoopInv ==
  \A t \in Tasks, ty \in Types :
    Distinct(todo[t][ty]) /\ (pc[t] = "allocate" => EndOf(todo[t][ty], Needs[t][ty]))

\* The inductive invariant of the resources.  NoOrphan and Exclusive are about what tasks
\* claim; LoopInv says what a visit, and a rollback, make of a claim.
RInv == RMTypeOK /\ StartInv /\ DirectInv /\ LoopInv /\ NoOrphan /\ Exclusive

\* Requirements are well-formed and name a resource once.
LEMMA NeedsType ==
  ASSUME NEW t \in Tasks
  PROVE  Needs[t] \in Requirement /\ \A ty \in Types : Distinct(Needs[t][ty])
<1>1. Needs[t] \in Requirement
  BY ResourceAssumption DEF Requirement
<1>2. \A ty \in Types : DOMAIN Needs[t][ty] = 1..Len(Needs[t][ty])
  BY <1>1, LenProperties DEF Requirement
<1> QED  BY <1>1, <1>2, ResourceAssumption DEF Distinct

\* A direct caller claims a single resource.
LEMMA DirectNeeds ==
  ASSUME NEW t \in Direct
  PROVE  \E r \in Types \X Ids : Named(Needs[t]) = {r}
<1>1. PICK ty \in Types, id \in Ids : Needs[t] = [x \in Types |-> IF x = ty THEN <<id>> ELSE <<>>]
  BY ResourceAssumption
<1>2. Needs[t][ty] = <<id>> /\ \A x \in Types \ {ty} : Needs[t][x] = <<>>
  BY <1>1
<1>3. DOMAIN Needs[t][ty] = {1} /\ \A x \in Types \ {ty} : DOMAIN Needs[t][x] = {}
  BY <1>2
<1>4. \A x \in Types, i \in Ids : <<x, i>> \in Named(Needs[t]) <=> x = ty /\ i = id
  BY <1>2, <1>3 DEF Named
<1>5. Named(Needs[t]) \subseteq Types \X Ids
  BY DEF Named
<1>6. Named(Needs[t]) = {<<ty, id>>}
  BY <1>4, <1>5
<1> QED  BY <1>6

\* A step of task t that allocates and releases nothing and keeps its claim, or widens it by
\* resources that requirements of several types name (the rollback), keeps the owners.
LEMMA ClaimKept ==
  ASSUME NoOrphan, Exclusive, NEW t \in Tasks, UNCHANGED <<allocated, rmStopped>>,
         \A u \in Tasks \ {t} : pc'[u] = pc[u] /\ todo'[u] = todo[u],
         Claims(t) \subseteq Claims(t)', Claims(t)' \cap Guarded \subseteq Claims(t)
  PROVE  NoOrphan' /\ Exclusive'
<1>1. \A u \in Tasks \ {t} : Claims(u)' = Claims(u)
  BY DEF Claims
<1>2. Guarded' = Guarded
  BY DEF Guarded
<1>3. NoOrphan'
  BY <1>1 DEF NoOrphan
<1>4. Exclusive'
  BY <1>1, <1>2 DEF Exclusive
<1> QED  BY <1>3, <1>4

\* A resource that was free becomes the task's.
LEMMA ClaimGrows ==
  ASSUME NoOrphan, Exclusive, NEW t \in Tasks, UNCHANGED rmStopped,
         \A u \in Tasks \ {t} : pc'[u] = pc[u] /\ todo'[u] = todo[u],
         NEW r, r \notin allocated, allocated' = allocated \cup {r}, Claims(t)' = Claims(t) \cup {r}
  PROVE  NoOrphan' /\ Exclusive'
<1>1. \A u \in Tasks \ {t} : Claims(u)' = Claims(u)
  BY DEF Claims
<1>2. Guarded' = Guarded
  BY DEF Guarded
<1>3. NoOrphan'
  BY <1>1 DEF NoOrphan
<1>4. Exclusive'
  BY <1>1, <1>2 DEF Exclusive
<1> QED  BY <1>3, <1>4

\* A resource the task claims becomes free.
LEMMA ClaimShrinks ==
  ASSUME NoOrphan, Exclusive, NEW t \in Tasks, UNCHANGED rmStopped,
         \A u \in Tasks \ {t} : pc'[u] = pc[u] /\ todo'[u] = todo[u],
         NEW r \in Claims(t), allocated' = allocated \ {r}, Claims(t)' = Claims(t) \ {r}
  PROVE  NoOrphan' /\ Exclusive'
<1>1. \A u \in Tasks \ {t} : Claims(u)' = Claims(u)
  BY DEF Claims
<1>2. Guarded' = Guarded
  BY DEF Guarded
<1>3. NoOrphan'
  BY <1>1 DEF NoOrphan
<1>4. Exclusive'
  BY <1>1, <1>2 DEF Exclusive
<1> QED  BY <1>3, <1>4

\* Entering a loop, or leaving one, is a well-typed step of the task alone.
LEMMA EnterLoop ==
  ASSUME RInv, NEW t \in Tasks \ Direct, NEW need \in Requirement,
         NEW label \in {"idle", "check", "allocate", "rollback", "held", "release"},
         Enter(t, label, need), \A ty \in Types : Distinct(need[ty]),
         label = "allocate" => need = Needs[t],
         Serving, UNCHANGED <<resources, allocated, rmStopped, halPc>>
  PROVE  /\ RMTypeOK' /\ StartInv' /\ DirectInv' /\ LoopInv'
         /\ pc'[t] = label /\ todo'[t] = need
         /\ \A u \in Tasks \ {t} : pc'[u] = pc[u] /\ todo'[u] = todo[u]
<1> USE DEF RInv, RMTypeOK, Requirement, Enter
<1>1. /\ pc'[t] = label /\ todo'[t] = need
      /\ \A u \in Tasks \ {t} : pc'[u] = pc[u] /\ todo'[u] = todo[u]
  OBVIOUS
<1>2. RMTypeOK'
  OBVIOUS
<1>3. StartInv' /\ DirectInv'
  BY <1>1, ResourceAssumption DEF StartInv, DirectInv, Serving
<1>4. LoopInv'
  <2>1. ASSUME NEW ty \in Types, label = "allocate" PROVE EndOf(need[ty], Needs[t][ty])
    <3>1. need[ty] = Needs[t][ty] /\ Len(need[ty]) \in Nat
      BY <2>1, LenProperties
    <3> QED  BY <3>1 DEF EndOf
  <2> QED  BY <1>1, <2>1 DEF LoopInv
<1> QED  BY <1>1, <1>2, <1>3, <1>4

\* One visit of a loop: the resource visited is named by what was left, and leaves it.
LEMMA VisitOne ==
  ASSUME RInv, NEW t \in Tasks, NEW ty \in Types, AtType(t, ty), Advance(t, ty),
         t \notin Direct, Serving, UNCHANGED <<resources, pc, rmStopped, halPc>>,
         allocated' \in SUBSET resources
  PROVE  /\ RMTypeOK' /\ StartInv' /\ DirectInv' /\ LoopInv'
         /\ Resource(t, ty) \in Named(todo[t])
         /\ Named(todo[t])' = Named(todo[t]) \ {Resource(t, ty)}
         /\ \A u \in Tasks \ {t} : pc'[u] = pc[u] /\ todo'[u] = todo[u]
<1> DEFINE rest == [todo[t] EXCEPT ![ty] = Tail(@)]
<1>1. todo[t] \in Requirement /\ todo[t][ty] # <<>> /\ Distinct(todo[t][ty])
  BY DEF RInv, RMTypeOK, LoopInv, AtType, Requirement
<1>2. /\ rest \in Requirement /\ Head(todo[t][ty]) \in Ids /\ Distinct(rest[ty])
      /\ Named(rest) = Named(todo[t]) \ {<<ty, Head(todo[t][ty])>>}
  BY <1>1, NamedTail
<1>3. /\ todo'[t] = rest /\ rest[ty] = Tail(todo[t][ty])
      /\ \A x \in Types \ {ty} : rest[x] = todo[t][x]
      /\ \A u \in Tasks \ {t} : todo'[u] = todo[u]
  BY <1>1 DEF Advance, RInv, RMTypeOK, Requirement
<1>4. todo' \in [Tasks -> [Types -> Seq(Ids)]] /\ cur' \in [Tasks -> Types \cup {NoType}]
  BY <1>2, <1>3 DEF Advance, RInv, RMTypeOK, Requirement
<1> HIDE DEF rest
<1>5. RMTypeOK' /\ StartInv' /\ DirectInv'
  BY <1>4 DEF RInv, RMTypeOK, StartInv, DirectInv, Serving
<1>6. <<ty, Head(todo[t][ty])>> \in Named(todo[t])
  <2>1. Head(todo[t][ty]) = todo[t][ty][1] /\ 1 \in 1..Len(todo[t][ty])
    BY <1>1, EmptySeq DEF Requirement
  <2> QED  BY <1>1, <1>2, <2>1, NamedMember
<1>7. LoopInv'
  <2>1. ASSUME pc[t] = "allocate" PROVE EndOf(rest[ty], Needs[t][ty])
    <3>1. todo[t][ty] \in Seq(Ids) /\ Needs[t][ty] \in Seq(Ids) /\ EndOf(todo[t][ty], Needs[t][ty])
      BY <1>1, <2>1, NeedsType DEF RInv, LoopInv, Requirement
    <3> QED  BY <1>1, <1>3, <3>1, EndOfTail
  <2>2. ASSUME NEW u \in Tasks, NEW x \in Types
        PROVE Distinct(todo'[u][x]) /\ (pc[u] = "allocate" => EndOf(todo'[u][x], Needs[u][x]))
    BY <1>2, <1>3, <2>1 DEF RInv, LoopInv
  <2> QED  BY <2>2 DEF LoopInv
<1> QED  BY <1>2, <1>3, <1>5, <1>6, <1>7 DEF Resource

\* While a task allocates, what is left of its loop is part of its requirement.
LEMMA LeftIsNamed ==
  ASSUME RMTypeOK, LoopInv, NEW t \in Tasks, pc[t] = "allocate"
  PROVE  Named(todo[t]) \subseteq Named(Needs[t])
<1>1. todo[t] \in Requirement /\ Needs[t] \in Requirement
  BY NeedsType DEF RMTypeOK, Requirement
<1>2. ASSUME NEW ty \in Types, NEW id \in Ids, <<ty, id>> \in Named(todo[t])
      PROVE <<ty, id>> \in Named(Needs[t])
  <2> DEFINE s == todo[t][ty]
             n == Needs[t][ty]
             ls == Len(s)
             ln == Len(n)
  <2>1. ls \in Nat /\ ln \in Nat
    BY <1>1, LenProperties DEF Requirement
  <2>2. ls <= ln /\ \A i \in 1..ls : s[i] = n[i + ln - ls]
    BY DEF LoopInv, EndOf
  <2>3. PICK i \in 1..ls : s[i] = id
    BY <1>1, <1>2, NamedMember
  <2> HIDE DEF ls, ln
  <2>4. i + ln - ls \in 1..ln
    BY <2>1, <2>2
  <2>5. n[i + ln - ls] = id
    BY <2>2, <2>3
  <2>6. \E j \in 1..Len(n) : n[j] = id
    BY <2>4, <2>5 DEF ln
  <2> QED  BY <1>1, <2>6, NamedMember
<1>3. Named(todo[t]) \subseteq Types \X Ids
  BY DEF Named
<1> QED  BY <1>2, <1>3

\* The tables as newly made satisfy the invariant.
LEMMA RInvInit == Init => RInv
<1> SUFFICES ASSUME Init PROVE RInv
  OBVIOUS
<1> USE DEF Init, RMInit
<1>1. RMTypeOK
  BY NamedNothing DEF RMTypeOK, Requirement
<1>2. StartInv /\ DirectInv
  BY ResourceAssumption DEF StartInv, DirectInv
<1>3. LoopInv
  <2>1. \A ty \in Types : Len(Nothing[ty]) = 0
    BY DEF Nothing
  <2> QED  BY <2>1 DEF LoopInv, Distinct
<1>4. \A t \in Tasks : Claims(t) = {}
  BY DEF Claims
<1> QED  BY <1>1, <1>2, <1>3, <1>4 DEF RInv, NoOrphan, Exclusive

\* Every step of a task preserves it.
LEMMA TaskKeepsRInv ==
  ASSUME RInv, NEW t \in Tasks, Serving, TaskStep(t), UNCHANGED halPc
  PROVE  RInv'
<1>0. /\ NoOrphan /\ Exclusive /\ Needs[t] \in Requirement
      /\ \A ty \in Types : Distinct(Needs[t][ty])
      /\ Nothing \in Requirement /\ Named(Nothing) = {} /\ \A ty \in Types : Distinct(Nothing[ty])
  <2>1. \A ty \in Types : Len(Nothing[ty]) = 0
    BY DEF Nothing
  <2> QED  BY <2>1, NeedsType, NamedNothing DEF RInv, Distinct
<1>1. ASSUME AllocateResource(t) \/ ReleaseResource(t) PROVE RInv'
  <2>1. t \in Direct /\ pc[t] \in {"idle", "held"} /\ UNCHANGED <<resources, todo, cur, rmStopped>>
    BY <1>1 DEF AllocateResource, ReleaseResource
  <2>2. PICK r \in Types \X Ids : Named(Needs[t]) = {r}
    BY <2>1, DirectNeeds
  <2>3. \A u \in Tasks \ {t} : pc'[u] = pc[u] /\ todo'[u] = todo[u]
    BY <1>1, <2>1 DEF AllocateResource, ReleaseResource, RInv, RMTypeOK
  <2>4. CASE AllocateResource(t)
    <3>1. /\ r \in resources /\ r \notin allocated /\ allocated' = allocated \cup {r}
          /\ pc[t] = "idle" /\ pc' = [pc EXCEPT ![t] = "held"]
      BY <2>2, <2>4 DEF AllocateResource, CanAllocate
    <3>2. Claims(t) = {} /\ Claims(t)' = {r}
      BY <2>2, <3>1 DEF Claims, RInv, RMTypeOK
    <3>3. NoOrphan' /\ Exclusive'
      BY <1>0, <2>1, <2>3, <3>1, <3>2, ClaimGrows
    <3>4. RMTypeOK' /\ StartInv' /\ DirectInv' /\ LoopInv'
      BY <2>1, <3>1 DEF RInv, RMTypeOK, StartInv, DirectInv, LoopInv, Serving
    <3> QED  BY <3>3, <3>4 DEF RInv
  <2>5. CASE ReleaseResource(t)
    <3>1. allocated' = allocated \ {r} /\ pc[t] = "held" /\ pc' = [pc EXCEPT ![t] = "idle"]
      BY <2>2, <2>5 DEF ReleaseResource, Released
    <3>2. Claims(t) = {r} /\ Claims(t)' = {}
      BY <2>2, <3>1 DEF Claims, RInv, RMTypeOK
    <3>3. NoOrphan' /\ Exclusive'
      <4>1. r \in Claims(t) /\ Claims(t)' = Claims(t) \ {r} /\ UNCHANGED rmStopped
        BY <2>1, <3>2
      <4> QED  BY <1>0, <2>3, <3>1, <4>1, ClaimShrinks
    <3>4. RMTypeOK' /\ StartInv' /\ DirectInv' /\ LoopInv'
      BY <2>1, <3>1 DEF RInv, RMTypeOK, StartInv, DirectInv, LoopInv, Serving
    <3> QED  BY <3>3, <3>4 DEF RInv
  <2> QED  BY <1>1, <2>4, <2>5
<1>2. ASSUME NEW label \in {"idle", "check", "allocate", "rollback", "held", "release"},
             NEW need \in Requirement, Enter(t, label, need), \A ty \in Types : Distinct(need[ty]),
             label = "allocate" => need = Needs[t],
             t \notin Direct, UNCHANGED <<resources, allocated, rmStopped>>,
             Claims(t) \subseteq Claims(t)', Claims(t)' \cap Guarded \subseteq Claims(t)
      PROVE RInv'
  <2>1. /\ RMTypeOK' /\ StartInv' /\ DirectInv' /\ LoopInv'
        /\ \A u \in Tasks \ {t} : pc'[u] = pc[u] /\ todo'[u] = todo[u]
    BY <1>2, EnterLoop
  <2>2. NoOrphan' /\ Exclusive'
    BY <1>0, <1>2, <2>1, ClaimKept
  <2> QED  BY <2>1, <2>2 DEF RInv
<1>3. ASSUME NEW label, NEW need, Enter(t, label, need)
      PROVE pc'[t] = label /\ todo'[t] = need
  BY <1>3 DEF Enter, RInv, RMTypeOK
<1>4. ASSUME AllocateForTask(t) PROVE RInv'
  <2>1. t \notin Direct /\ Enter(t, "check", Needs[t]) /\ UNCHANGED <<resources, allocated, rmStopped>>
    BY <1>4 DEF AllocateForTask
  <2>2. Claims(t) = {} /\ Claims(t)' = {}
    BY <1>3, <1>4, <2>1 DEF Claims, AllocateForTask
  <2> QED  BY <1>0, <1>2, <2>1, <2>2
<1>5. ASSUME CheckOne(t) PROVE RInv'
  <2>1. t \notin Direct /\ UNCHANGED <<resources, allocated, rmStopped>> /\ pc[t] = "check"
    BY <1>5, ResourceAssumption DEF CheckOne, RInv, DirectInv
  <2>2. CASE Enter(t, "idle", Nothing)
    <3>1. Claims(t) = {} /\ Claims(t)' = {}
      BY <1>3, <2>1, <2>2 DEF Claims
    <3> QED  BY <1>0, <1>2, <2>1, <2>2, <3>1
  <2>3. ASSUME NEW ty \in Types, AtType(t, ty), Advance(t, ty), UNCHANGED pc PROVE RInv'
    <3>1. allocated' \in SUBSET resources
      BY <2>1 DEF RInv, RMTypeOK
    <3>2. /\ RMTypeOK' /\ StartInv' /\ DirectInv' /\ LoopInv'
          /\ \A u \in Tasks \ {t} : pc'[u] = pc[u] /\ todo'[u] = todo[u]
      BY <2>1, <2>3, <3>1, VisitOne
    <3>3. Claims(t) = {} /\ Claims(t)' = {}
      BY <2>1, <2>3 DEF Claims
    <3>4. NoOrphan' /\ Exclusive'
      BY <1>0, <2>1, <3>2, <3>3, ClaimKept
    <3> QED  BY <3>2, <3>4 DEF RInv
  <2> QED  BY <1>5, <2>2, <2>3 DEF CheckOne
<1>6. ASSUME CheckDone(t) PROVE RInv'
  <2>1. /\ t \notin Direct /\ Enter(t, "allocate", Needs[t]) /\ pc[t] = "check"
        /\ UNCHANGED <<resources, allocated, rmStopped>>
    BY <1>6, ResourceAssumption DEF CheckDone, RInv, DirectInv
  <2>2. Claims(t) = {} /\ Claims(t)' = {}
    BY <1>3, <2>1 DEF Claims
  <2> QED  BY <1>0, <1>2, <2>1, <2>2
<1>7. ASSUME AllocateOne(t) PROVE RInv'
  <2>1. t \notin Direct /\ UNCHANGED <<resources, rmStopped>> /\ pc[t] = "allocate"
    BY <1>7, ResourceAssumption DEF AllocateOne, RInv, DirectInv
  <2>2. Claims(t) = Named(Needs[t]) \ Named(todo[t])
    BY <2>1 DEF Claims
  <2>3. ASSUME NEW ty \in Types, AtType(t, ty), CanAllocate(Resource(t, ty)),
               allocated' = allocated \cup {Resource(t, ty)}, Advance(t, ty), UNCHANGED pc
        PROVE RInv'
    <3> DEFINE r == Resource(t, ty)
    <3>1. allocated' \in SUBSET resources /\ r \notin allocated
      BY <2>3 DEF CanAllocate, RInv, RMTypeOK
    <3>2. /\ RMTypeOK' /\ StartInv' /\ DirectInv' /\ LoopInv'
          /\ r \in Named(todo[t]) /\ Named(todo[t])' = Named(todo[t]) \ {r}
          /\ \A u \in Tasks \ {t} : pc'[u] = pc[u] /\ todo'[u] = todo[u]
      BY <2>1, <2>3, <3>1, VisitOne
    <3>3. r \in Named(Needs[t])
      BY <2>1, <3>2, LeftIsNamed DEF RInv
    <3>4. Claims(t)' = Named(Needs[t]) \ Named(todo[t])'
      BY <2>1, <2>3 DEF Claims
    <3>5. Claims(t)' = Claims(t) \cup {r}
      BY <2>2, <3>2, <3>3, <3>4
    <3>6. NoOrphan' /\ Exclusive'
      BY <1>0, <2>1, <2>3, <3>1, <3>2, <3>5, ClaimGrows
    <3> QED  BY <3>2, <3>6 DEF RInv
  <2>4. ASSUME NEW ty \in Types, AtType(t, ty), Enter(t, "rollback", Rollback(t, ty)), UNCHANGED allocated
        PROVE RInv'
    <3> DEFINE back == Rollback(t, ty)
    <3>1. todo[t] \in Requirement /\ EndOf(todo[t][ty], Needs[t][ty])
      BY <2>1 DEF RInv, RMTypeOK, LoopInv, Requirement
    <3>2. /\ back \in Requirement
          /\ \A x \in Types \ {ty} : back[x] = Needs[t][x]
          /\ Distinct(back[ty])
          /\ Named(Needs[t]) \ Named(todo[t]) \subseteq Named(back)
          /\ Named(back) \subseteq Named(Needs[t])
          /\ \A r \in Named(back) : r[1] = ty => r \notin Named(todo[t])
      BY <1>0, <3>1, NamedRollback DEF Rollback
    <3>3. Claims(t)' = Named(back)
      BY <1>3, <2>4 DEF Claims
    <3>4. ASSUME NEW r \in Named(back) \cap Guarded PROVE r \in Claims(t)
      <4>1. OneType(t) /\ r \in Named(Needs[t])
        BY <3>2 DEF Guarded, Named
      <4>2. Needs[t][ty] # <<>> /\ Needs[t][r[1]] # <<>>
        <5>1. todo[t][ty] # <<>>
          BY <2>4 DEF AtType
        <5>2. Len(todo[t][ty]) \in Nat \ {0} /\ Len(todo[t][ty]) <= Len(Needs[t][ty])
          BY <3>1, <5>1, EmptySeq DEF Requirement, EndOf
        <5>3. Needs[t][ty] # <<>>
          BY <5>2
        <5> QED  BY <4>1, <5>3 DEF Named
      <4>3. r[1] = ty
        BY <4>1, <4>2 DEF OneType, Named
      <4> QED  BY <2>2, <3>2, <4>1, <4>3
    <3> HIDE DEF back
    <3>5. \A x \in Types : Distinct(back[x])
      BY <1>0, <3>2
    <3>6. Enter(t, "rollback", back)
      BY <2>4 DEF back
    <3> QED  BY <1>2, <2>1, <2>2, <2>4, <3>2, <3>3, <3>4, <3>5, <3>6
  <2> QED  BY <1>7, <2>3, <2>4 DEF AllocateOne
<1>8. ASSUME AllocateDone(t) PROVE RInv'
  <2>1. /\ t \notin Direct /\ Enter(t, "held", Nothing) /\ pc[t] = "allocate" /\ todo[t] = Nothing
        /\ UNCHANGED <<resources, allocated, rmStopped>>
    BY <1>8, ResourceAssumption DEF AllocateDone, LoopDone, RInv, DirectInv
  <2>2. Claims(t) = Named(Needs[t]) \ Named(Nothing) /\ Claims(t)' = Named(Needs[t])
    BY <1>3, <2>1 DEF Claims
  <2> QED  BY <1>0, <1>2, <2>1, <2>2
<1>9. ASSUME ReleaseForTask(t) PROVE RInv'
  <2>1. /\ t \notin Direct /\ Enter(t, "release", Needs[t]) /\ pc[t] = "held"
        /\ UNCHANGED <<resources, allocated, rmStopped>>
    BY <1>9 DEF ReleaseForTask
  <2>2. Claims(t) = Named(Needs[t]) /\ Claims(t)' = Named(Needs[t])
    BY <1>3, <2>1 DEF Claims
  <2> QED  BY <1>0, <1>2, <2>1, <2>2
<1>10. ASSUME ReleaseOne(t) PROVE RInv'
  <2>1. t \notin Direct /\ UNCHANGED <<resources, pc, rmStopped>> /\ pc[t] \in {"rollback", "release"}
    BY <1>10, ResourceAssumption DEF ReleaseOne, RInv, DirectInv
  <2>2. PICK ty \in Types : AtType(t, ty) /\ allocated' = allocated \ {Resource(t, ty)} /\ Advance(t, ty)
    BY <1>10 DEF ReleaseOne, Released
  <2> DEFINE r == Resource(t, ty)
  <2>3. allocated' \in SUBSET resources
    BY <2>2 DEF RInv, RMTypeOK
  <2>4. /\ RMTypeOK' /\ StartInv' /\ DirectInv' /\ LoopInv'
        /\ r \in Named(todo[t]) /\ Named(todo[t])' = Named(todo[t]) \ {r}
        /\ \A u \in Tasks \ {t} : pc'[u] = pc[u] /\ todo'[u] = todo[u]
    BY <2>1, <2>2, <2>3, VisitOne
  <2>5. Claims(t) = Named(todo[t]) /\ Claims(t)' = Named(todo[t])'
    BY <2>1 DEF Claims
  <2>6. NoOrphan' /\ Exclusive'
    BY <1>0, <2>1, <2>2, <2>4, <2>5, ClaimShrinks
  <2> QED  BY <2>4, <2>6 DEF RInv
<1>11. ASSUME ReleaseDone(t) PROVE RInv'
  <2>1. /\ t \notin Direct /\ Enter(t, "idle", Nothing) /\ pc[t] \in {"rollback", "release"}
        /\ todo[t] = Nothing /\ UNCHANGED <<resources, allocated, rmStopped>>
    BY <1>11, ResourceAssumption DEF ReleaseDone, LoopDone, RInv, DirectInv
  <2>2. Claims(t) = {} /\ Claims(t)' = {}
    BY <1>0, <1>3, <2>1 DEF Claims
  <2> QED  BY <1>0, <1>2, <2>1, <2>2
<1> QED
  BY <1>1, <1>4, <1>5, <1>6, <1>7, <1>8, <1>9, <1>10, <1>11 DEF TaskStep

\* So does every step of the layer.
LEMMA RInvStep == RInv /\ [Next]_vars => RInv'
<1> SUFFICES ASSUME RInv, [Next]_vars PROVE RInv'
  OBVIOUS
<1>1. ASSUME UNCHANGED rmVars, Serving => Serving' PROVE RInv'
  <2> USE DEF rmVars
  <2>1. \A t \in Tasks : Claims(t)' = Claims(t)
    BY <1>1 DEF Claims, Named
  <2>2. RMTypeOK' /\ DirectInv' /\ LoopInv'
    BY <1>1 DEF RInv, RMTypeOK, DirectInv, LoopInv
  <2>3. StartInv'
    BY <1>1 DEF RInv, StartInv
  <2>4. NoOrphan'
    BY <1>1, <2>1 DEF RInv, NoOrphan
  <2>5. Exclusive'
    BY <1>1, <2>1 DEF RInv, Exclusive, Guarded, OneType
  <2> QED  BY <2>2, <2>3, <2>4, <2>5 DEF RInv
<1>2. CASE StartResources
  <2>1. ~Serving /\ allocated = {} /\ \A t \in Tasks : pc[t] = "idle"
    BY <1>2 DEF StartResources, Trans, Serving, RInv, StartInv
  <2>2. allocated' = {} /\ resources' = Configured /\ UNCHANGED <<pc, todo, cur, rmStopped>>
    BY <1>2, <2>1 DEF StartResources, RMStart
  <2>3. RMTypeOK' /\ DirectInv' /\ LoopInv' /\ StartInv'
    BY <2>1, <2>2 DEF RInv, RMTypeOK, DirectInv, LoopInv, StartInv
  <2>4. \A t \in Tasks : Claims(t)' = {}
    BY <2>1, <2>2 DEF Claims
  <2> QED  BY <2>2, <2>3, <2>4 DEF RInv, NoOrphan, Exclusive
<1>3. CASE StopResources
  <2>1. allocated' = {} /\ rmStopped' = TRUE /\ UNCHANGED <<resources, pc, todo, cur>> /\ Serving'
    BY <1>3 DEF StopResources, RMStop, Trans, Serving
  <2> QED
    BY <2>1 DEF RInv, RMTypeOK, DirectInv, LoopInv, StartInv, NoOrphan, Exclusive
<1>4. ASSUME NEW t \in Tasks, Serving, TaskStep(t), UNCHANGED <<devVars, devices, protocols, halPc, queued>>
      PROVE RInv'
  BY <1>4, TaskKeepsRInv
<1>5. CASE StartProtocols \/ StartDevices \/ StopDevices
  BY <1>1, <1>5 DEF StartProtocols, StartDevices, StopDevices, Trans, Serving
<1>6. ASSUME NEW d \in Devices, AddDevice(d) \/ RemoveDevice(d) PROVE RInv'
  BY <1>1, <1>6 DEF AddDevice, RemoveDevice, Serving
<1>7. ASSUME NEW w \in Writers,
             \/ ExecuteCommand(w) \/ QueueCommand(w)
             \/ WriteStep(w) /\ UNCHANGED <<rmVars, devices, protocols, halPc, queued>>
      PROVE RInv'
  BY <1>1, <1>7 DEF ExecuteCommand, QueueCommand, Serving
<1>8. CASE UNCHANGED vars
  BY <1>1, <1>8 DEF vars, Serving
<1> QED
  BY <1>2, <1>3, <1>4, <1>5, <1>6, <1>7, <1>8 DEF Next, StartStep, StopStep

\* Whatever the requirements and however Go orders their types, a failed AllocateForTask and a
\* ReleaseForTask leave no resource marked that nobody will release.
THEOREM NothingOrphaned == Spec => []NoOrphan
<1>1. RInv => NoOrphan
  BY DEF RInv
<1> QED  BY RInvInit, RInvStep, <1>1, PTL DEF Spec

\* Two callers never hold the same resource of a one-type requirement, although other callers
\* take and release resources between the checks and the allocations of AllocateForTask.
THEOREM OneHolder == Spec => []Exclusive
<1>1. RInv => Exclusive
  BY DEF RInv
<1> QED  BY RInvInit, RInvStep, <1>1, PTL DEF Spec

-----------------------------------------------------------------------------
(* The device objects *)

\* A Write under way has a device.
TargetInv == \A w \in Writers : wpc[w] # "idle" => wdev[w] \in Devices

\* The flag that a Write is about to store is the device's, unless the last Connect or
\* Disconnect came in between.
CopyInv == \A w \in Writers :
             wpc[w] = "store" => raced[wdev[w]] \/ wcopy[w] = connected[wdev[w]]

\* A Write whose command has reached the device.
Carried(w) == wpc[w] \in {"copy", "store"} \/ (wpc[w] = "written" /\ wtype[w] = "MoveTo")

\* What a Write is about to store, or its caller to hand on, reached the device entirely.
SentInv == \A w \in Writers :
             Carried(w) /\ kind[wdev[w]] # "modbus" => Wire(kind[wdev[w]], wtarget[w]) \in sent[wdev[w]]

LayerType ==
  /\ devices \subseteq Devices
  /\ protocols \subseteq {"modbus", "serial", "custom"}
  /\ halPc \in {"new", "protocolsUp", "resourcesUp", "running", "devicesDown", "stopped"}
  /\ queued \in [Devices -> Targets]

\* The inductive invariant of the devices: what Status() reports is stored by a Write that
\* read it earlier, so what a Write carries has to be described as well.
DInv == DevTypeOK /\ LayerType /\ TargetInv /\ CopyInv /\ SentInv /\ StatusAgrees /\ ReportedWasSent

\* What goes over the wire is a pair of numbers.
LEMMA WireType ==
  ASSUME NEW k \in Kinds, NEW t \in Targets
  PROVE  Wire(k, t) \in [pos : Nat, vel : Nat] /\ (t = AtRest => Wire(k, t) = AtRest)
<1>1. t \in [pos : Nat, vel : Nat]
  BY DeviceAssumption
<1>2. t.pos % 256 \in Nat /\ t.vel % 256 \in Nat /\ t.pos % 65536 \in Nat
  BY <1>1
<1>3. 0 % 256 = 0 /\ 0 % 65536 = 0
  OBVIOUS
<1>4. CASE k = "hardware"
  BY <1>2, <1>3, <1>4 DEF Wire, AtRest
<1>5. CASE k = "modbus"
  BY <1>2, <1>3, <1>5 DEF Wire, AtRest
<1>6. CASE k \notin {"hardware", "modbus"}
  BY <1>1, <1>6 DEF Wire
<1> QED  BY <1>4, <1>5, <1>6

LEMMA DInvInit == Init => DInv
<1> SUFFICES ASSUME Init PROVE DInv
  OBVIOUS
<1> USE DEF Init, DevInit
<1>1. kind \in [Devices -> Kinds]
  BY DEF KindOf, Kinds
<1>2. DevTypeOK
  BY <1>1, DeviceAssumption DEF DevTypeOK, Status, AtRest
<1>3. \A d \in Devices : Wire(kind[d], AtRest) = AtRest
  BY <1>1, WireType, DeviceAssumption
<1>4. ReportedWasSent
  BY <1>3 DEF ReportedWasSent
<1> QED
  BY <1>2, <1>4, DeviceAssumption
     DEF DInv, LayerType, TargetInv, CopyInv, SentInv, Carried, StatusAgrees

\* Connecting or disconnecting some devices at once: their flag and their status agree, and
\* every Write that is past its check is raced.  AddDevice and RemoveDevice do it to one
\* device, Stop to all.
LEMMA Reconnected ==
  ASSUME DInv, NEW S \in SUBSET Devices, NEW b \in BOOLEAN,
         connected' = [d \in Devices |-> IF d \in S THEN b ELSE connected[d]],
         client' \in [Devices -> BOOLEAN],
         status' = [d \in Devices |-> IF d \in S THEN [status[d] EXCEPT !.conn = b] ELSE status[d]],
         raced' = [d \in Devices |-> IF d \in S THEN Writing(d) ELSE raced[d]],
         UNCHANGED <<kind, sent, wpc, wdev, wtarget, wtype, wcopy, queued>>,
         LayerType'
  PROVE  DInv'
<1> USE DEF DInv, DevTypeOK
<1>1. status' \in [Devices -> Status] /\ \A d \in Devices : status'[d].target = status[d].target
  BY DEF Status
<1>2. DevTypeOK'
  BY <1>1 DEF Writing
<1>3. TargetInv' /\ SentInv' /\ ReportedWasSent'
  BY <1>1 DEF TargetInv, SentInv, Carried, ReportedWasSent
<1>4. StatusAgrees'
  BY DEF StatusAgrees, Status
<1>5. CopyInv'
  <2> SUFFICES ASSUME NEW w \in Writers, wpc[w] = "store"
               PROVE raced'[wdev[w]] \/ wcopy[w] = connected'[wdev[w]]
    BY DEF CopyInv
  <2>1. wdev[w] \in Devices /\ (raced[wdev[w]] \/ wcopy[w] = connected[wdev[w]])
    BY DEF TargetInv, CopyInv
  <2>2. CASE wdev[w] \in S
    BY <2>1, <2>2 DEF Writing
  <2>3. CASE wdev[w] \notin S
    BY <2>1, <2>3
  <2> QED  BY <2>2, <2>3
<1> QED  BY <1>2, <1>3, <1>4, <1>5

\* A Write that returns leaves the devices as they are.
LEMMA ReturnKeepsDInv ==
  ASSUME DInv, NEW w \in Writers, WriteReturns(w), UNCHANGED <<status, sent, devices, protocols, halPc, queued>>
  PROVE  DInv'
<1> USE DEF DInv, DevTypeOK, WriteReturns
<1>1. DevTypeOK'
  BY DeviceAssumption
<1>2. LayerType' /\ StatusAgrees' /\ ReportedWasSent'
  BY DEF LayerType, StatusAgrees, ReportedWasSent
<1>3. TargetInv' /\ CopyInv' /\ SentInv'
  BY DEF TargetInv, CopyInv, SentInv, Carried
<1> QED  BY <1>1, <1>2, <1>3

\* A Write that goes on to another label, and may have brought its position to the device.
LEMMA GotoKeepsDInv ==
  ASSUME DInv, NEW w \in Writers, wpc[w] # "idle",
         NEW label \in {"position", "velocity", "copy", "store", "written"}, Goto(w, label),
         NEW more \in SUBSET [pos : Nat, vel : Nat], sent' = [sent EXCEPT ![wdev[w]] = @ \cup more],
         NEW b \in BOOLEAN, wcopy' = [wcopy EXCEPT ![w] = b],
         UNCHANGED <<status, devices, protocols, halPc, queued>>,
         label = "store" => raced[wdev[w]] \/ b = connected[wdev[w]],
         label \in {"copy", "store"} \/ (label = "written" /\ wtype[w] = "MoveTo") =>
           kind[wdev[w]] = "modbus" \/ Wire(kind[wdev[w]], wtarget[w]) \in sent[wdev[w]] \cup more
  PROVE  DInv'
<1> USE DEF DInv, DevTypeOK, Goto
<1>0. wdev[w] \in Devices
  BY DEF TargetInv
<1>1. /\ sent' \in [Devices -> SUBSET [pos : Nat, vel : Nat]]
      /\ \A d \in Devices : sent[d] \subseteq sent'[d]
      /\ sent'[wdev[w]] = sent[wdev[w]] \cup more
  BY <1>0
<1>2. DevTypeOK'
  BY <1>1
<1>3. LayerType' /\ StatusAgrees'
  BY DEF LayerType, StatusAgrees
<1>4. ReportedWasSent'
  BY <1>1 DEF ReportedWasSent
<1>5. TargetInv' /\ CopyInv'
  BY <1>0 DEF TargetInv, CopyInv
<1>6. SentInv'
  <2> SUFFICES ASSUME NEW v \in Writers, Carried(v)', kind[wdev[v]] # "modbus"
               PROVE Wire(kind[wdev[v]], wtarget[v]) \in sent'[wdev[v]]
    BY DEF SentInv
  <2>1. CASE v = w
    <3>1. label \in {"copy", "store"} \/ (label = "written" /\ wtype[w] = "MoveTo")
      BY <2>1 DEF Carried
    <3> QED  BY <1>1, <2>1, <3>1
  <2>2. CASE v # w
    <3>1. Carried(v) /\ wdev[v] \in Devices
      BY <2>2 DEF TargetInv, Carried
    <3> QED  BY <1>1, <3>1 DEF SentInv
  <2> QED  BY <2>1, <2>2
<1> QED  BY <1>2, <1>3, <1>4, <1>5, <1>6

\* Every critical section of Write preserves it.
LEMMA WriteKeepsDInv ==
  ASSUME DInv, NEW w \in Writers, WriteStep(w), UNCHANGED <<devices, protocols, halPc, queued>>
  PROVE  DInv'
<1> DEFINE d == wdev[w]
<1> DEFINE it == Wire(kind[d], wtarget[w])
<1>0. /\ wpc[w] # "idle" => d \in Devices
      /\ wcopy[w] \in BOOLEAN /\ wcopy = [wcopy EXCEPT ![w] = wcopy[w]]
      /\ {} \in SUBSET [pos : Nat, vel : Nat]
  BY DEF DInv, DevTypeOK, TargetInv
<1>w. wpc[w] # "idle" => {it} \in SUBSET [pos : Nat, vel : Nat]
  <2>1. wtarget[w] \in Targets /\ (wpc[w] # "idle" => kind[d] \in Kinds)
    BY <1>0 DEF DInv, DevTypeOK
  <2> QED  BY <2>1, WireType
<1>d. Delivered(w) = [sent EXCEPT ![d] = @ \cup {it}]
  BY DEF Delivered
<1> HIDE DEF it
<1>1. wpc[w] # "idle" => sent = [sent EXCEPT ![d] = @ \cup {}]
  BY <1>0 DEF DInv, DevTypeOK
<1>2. CASE WriteCheck(w)
  <2>1. CASE WriteReturns(w) /\ UNCHANGED <<status, sent>>
    BY <2>1, ReturnKeepsDInv
  <2>2. ASSUME connected[d], kind[d] = "mock", Goto(w, "store"), wcopy' = [wcopy EXCEPT ![w] = TRUE],
               sent' = Delivered(w), UNCHANGED status
        PROVE DInv'
    <3>1. wpc[w] = "got" /\ connected[d] = TRUE
      BY <1>0, <1>2, <2>2 DEF WriteCheck, DInv, DevTypeOK
    <3>2. sent' = [sent EXCEPT ![d] = @ \cup {it}] /\ Wire(kind[d], wtarget[w]) \in sent[d] \cup {it}
      BY <1>d, <2>2 DEF it
    <3> QED  BY <1>0, <1>w, <2>2, <3>1, <3>2, GotoKeepsDInv
  <2>3. ASSUME kind[d] # "mock", Goto(w, "position"), wcopy' = [wcopy EXCEPT ![w] = FALSE],
               UNCHANGED <<sent, status>>
        PROVE DInv'
    <3>1. wpc[w] = "got"
      BY <1>2 DEF WriteCheck
    <3>2. sent' = [sent EXCEPT ![d] = @ \cup {}]
      BY <1>1, <2>3, <3>1
    <3> QED  BY <1>0, <2>3, <3>1, <3>2, GotoKeepsDInv
  <2> QED  BY <1>2, <2>1, <2>2, <2>3 DEF WriteCheck
<1>3. CASE WritePosition(w)
  <2>0. wpc[w] = "position"
    BY <1>3 DEF WritePosition
  <2>1. CASE WriteReturns(w) /\ UNCHANGED <<status, sent>>
    BY <2>1, ReturnKeepsDInv
  <2>2. ASSUME kind[d] = "modbus", Goto(w, "copy"), UNCHANGED <<status, wcopy>>,
               sent' = IF wtype[w] = "MoveTo" THEN Delivered(w) ELSE sent
        PROVE DInv'
    <3> DEFINE more == IF wtype[w] = "MoveTo" THEN {it} ELSE {}
    <3>1. more \in SUBSET [pos : Nat, vel : Nat]
      BY <1>0, <1>w, <2>0
    <3>2. wcopy' = [wcopy EXCEPT ![w] = wcopy[w]] /\ sent' = [sent EXCEPT ![d] = @ \cup more]
      BY <1>0, <1>1, <1>d, <2>0, <2>2
    <3> HIDE DEF more
    <3> QED  BY <1>0, <2>0, <2>2, <3>1, <3>2, GotoKeepsDInv
  <2>3. ASSUME Goto(w, "velocity"), UNCHANGED <<status, sent, wcopy>> PROVE DInv'
    <3>1. wcopy' = [wcopy EXCEPT ![w] = wcopy[w]] /\ sent' = [sent EXCEPT ![d] = @ \cup {}]
      BY <1>0, <1>1, <2>0, <2>3
    <3> QED  BY <1>0, <2>0, <2>3, <3>1, GotoKeepsDInv
  <2>4. ASSUME Goto(w, "written"), wtype[w] # "MoveTo", UNCHANGED <<status, sent, wcopy>> PROVE DInv'
    <3>1. wcopy' = [wcopy EXCEPT ![w] = wcopy[w]] /\ sent' = [sent EXCEPT ![d] = @ \cup {}]
      BY <1>0, <1>1, <2>0, <2>4
    <3> QED  BY <1>0, <2>0, <2>4, <3>1, GotoKeepsDInv
  <2> QED  BY <1>3, <2>1, <2>2, <2>3, <2>4 DEF WritePosition
<1>4. CASE WriteVelocity(w)
  <2>1. CASE WriteReturns(w) /\ UNCHANGED <<status, sent>>
    BY <2>1, ReturnKeepsDInv
  <2>2. ASSUME sent' = Delivered(w), Goto(w, "copy"), UNCHANGED <<status, wcopy>>
        PROVE DInv'
    <3>1. wcopy' = [wcopy EXCEPT ![w] = wcopy[w]] /\ wpc[w] = "velocity"
      BY <1>0, <1>4, <2>2 DEF WriteVelocity
    <3>2. sent' = [sent EXCEPT ![d] = @ \cup {it}] /\ Wire(kind[d], wtarget[w]) \in sent[d] \cup {it}
      BY <1>d, <2>2 DEF it
    <3> QED  BY <1>0, <1>w, <2>2, <3>1, <3>2, GotoKeepsDInv
  <2> QED  BY <1>4, <2>1, <2>2 DEF WriteVelocity
<1>5. CASE CopyStatus(w)
  <2> DEFINE b == status[d].conn
  <2>1. /\ wpc[w] = "copy" /\ Goto(w, "store") /\ UNCHANGED <<status, sent>>
        /\ wcopy' = [wcopy EXCEPT ![w] = b]
    BY <1>5 DEF CopyStatus
  <2>2. b \in BOOLEAN /\ (raced[d] \/ b = connected[d])
    BY <1>0, <2>1 DEF DInv, DevTypeOK, Status, StatusAgrees
  <2>3. sent' = [sent EXCEPT ![d] = @ \cup {}]
    BY <1>1, <2>1
  <2>4. kind[d] = "modbus" \/ Wire(kind[d], wtarget[w]) \in sent[d] \cup {}
    BY <2>1 DEF DInv, SentInv, Carried
  <2> HIDE DEF b
  <2> QED  BY <1>0, <2>1, <2>2, <2>3, <2>4, GotoKeepsDInv
<1>6. CASE StoreStatus(w)
  <2>1. /\ wpc[w] = "store" /\ Goto(w, "written") /\ UNCHANGED sent
        /\ status' = [status EXCEPT ![d] = [conn |-> wcopy[w], target |-> wtarget[w]]]
        /\ wcopy' = [wcopy EXCEPT ![w] = FALSE]
    BY <1>6 DEF StoreStatus
  <2>2. /\ status' \in [Devices -> Status]
        /\ status'[d].conn = wcopy[w] /\ status'[d].target = wtarget[w]
        /\ \A x \in Devices \ {d} : status'[x] = status[x]
    BY <1>0, <2>1 DEF DInv, DevTypeOK, Status
  <2> USE DEF DInv, DevTypeOK, Goto
  <2>3. DevTypeOK'
    BY <2>1, <2>2
  <2>4. LayerType' /\ TargetInv' /\ CopyInv'
    BY <1>0, <2>1 DEF LayerType, TargetInv, CopyInv
  <2>5. SentInv'
    BY <2>1 DEF SentInv, Carried
  <2>6. StatusAgrees'
    BY <1>0, <2>1, <2>2 DEF StatusAgrees, CopyInv
  <2>7. ReportedWasSent'
    <3>1. kind[d] # "modbus" => Wire(kind[d], wtarget[w]) \in sent[d]
      BY <2>1 DEF SentInv, Carried
    <3> QED  BY <1>0, <2>1, <2>2, <3>1 DEF ReportedWasSent
  <2> QED  BY <2>3, <2>4, <2>5, <2>6, <2>7
<1> QED  BY <1>2, <1>3, <1>4, <1>5, <1>6 DEF WriteStep

\* Every step of the layer preserves it.
LEMMA DInvStep == DInv /\ [Next]_vars => DInv'
<1> SUFFICES ASSUME DInv, [Next]_vars PROVE DInv'
  OBVIOUS
<1>1. ASSUME UNCHANGED <<devVars, queued>>, LayerType' PROVE DInv'
  BY <1>1 DEF DInv, devVars, DevTypeOK, TargetInv, CopyInv, SentInv, Carried, StatusAgrees, ReportedWasSent
<1>2. CASE StartStep \/ StopResources
  BY <1>1, <1>2 DEF StartStep, StartProtocols, StartResources, StartDevices, StopResources, Trans,
                    DInv, LayerType
<1>3. CASE StopDevices
  <2> USE DEF DInv, DevTypeOK, StopDevices
  <2>1. devices \in SUBSET Devices /\ LayerType'
    BY <1>3 DEF LayerType, Trans
  <2>2. connected' = [d \in Devices |-> IF d \in devices THEN FALSE ELSE connected[d]]
    BY <1>3
  <2>3. client' \in [Devices -> BOOLEAN]
    BY <1>3
  <2>4. status' = [d \in Devices |-> IF d \in devices THEN [status[d] EXCEPT !.conn = FALSE] ELSE status[d]]
    BY <1>3
  <2>5. raced' = [d \in Devices |-> IF d \in devices THEN Writing(d) ELSE raced[d]]
    BY <1>3
  <2>6. UNCHANGED <<kind, sent, wpc, wdev, wtarget, wtype, wcopy, queued>>
    BY <1>3
  <2> QED  BY ONLY DInv, <2>1, <2>2, <2>3, <2>4, <2>5, <2>6, Reconnected
<1>4. ASSUME NEW d \in Devices, NEW b \in BOOLEAN, SetConnected(d, b), UNCHANGED queued, LayerType' PROVE DInv'
  <2> DEFINE S == {d}
  <2> USE DEF DInv, DevTypeOK, SetConnected
  <2>1. connected' = [x \in Devices |-> IF x \in S THEN b ELSE connected[x]]
    BY <1>4
  <2>2. client' \in [Devices -> BOOLEAN]
    BY <1>4
  <2>3. status' = [x \in Devices |-> IF x \in S THEN [status[x] EXCEPT !.conn = b] ELSE status[x]]
    BY <1>4 DEF Status
  <2>4. raced' = [x \in Devices |-> IF x \in S THEN Writing(x) ELSE raced[x]]
    BY <1>4
  <2>5. UNCHANGED <<kind, sent, wpc, wdev, wtarget, wtype, wcopy, queued>> /\ S \in SUBSET Devices
    BY <1>4
  <2> HIDE DEF S, DInv, DevTypeOK, SetConnected
  <2> QED  BY <1>4, <2>1, <2>2, <2>3, <2>4, <2>5, Reconnected
<1>5. ASSUME NEW d \in Devices, AddDevice(d) \/ RemoveDevice(d) PROVE DInv'
  <2>1. LayerType'
    BY <1>5 DEF AddDevice, RemoveDevice, DInv, LayerType
  <2> QED  BY <1>4, <1>5, <2>1 DEF AddDevice, RemoveDevice
<1>6. ASSUME NEW w \in Writers, ExecuteCommand(w) PROVE DInv'
  <2>1. PICK d \in devices, p \in Targets, ty \in {"MoveTo", "Stop", "other"} :
          /\ wdev' = [wdev EXCEPT ![w] = d] /\ wtarget' = [wtarget EXCEPT ![w] = p]
          /\ wtype' = [wtype EXCEPT ![w] = ty]
    BY <1>6 DEF ExecuteCommand
  <2>2. /\ d \in Devices /\ wpc' = [wpc EXCEPT ![w] = "got"]
        /\ UNCHANGED <<kind, connected, client, status, sent, wcopy, raced, devices, protocols, halPc, queued>>
    BY <1>6 DEF ExecuteCommand, DInv, LayerType
  <2> USE DEF DInv, DevTypeOK
  <2>3. DevTypeOK'
    BY <2>1, <2>2
  <2>4. LayerType' /\ StatusAgrees' /\ ReportedWasSent'
    BY <2>2 DEF LayerType, StatusAgrees, ReportedWasSent
  <2>5. TargetInv' /\ CopyInv' /\ SentInv'
    BY <2>1, <2>2 DEF TargetInv, CopyInv, SentInv, Carried
  <2> QED  BY <2>3, <2>4, <2>5
<1>7. ASSUME NEW w \in Writers, WriteStep(w), UNCHANGED <<rmVars, devices, protocols, halPc, queued>> PROVE DInv'
  BY <1>7, WriteKeepsDInv
<1>10. ASSUME NEW w \in Writers, QueueCommand(w) PROVE DInv'
  <2> DEFINE d == wdev[w]
             it == wtarget[w]
  <2>1. /\ wpc[w] = "written" /\ WriteReturns(w) /\ UNCHANGED <<status, sent, devices, protocols, halPc>>
        /\ \/ UNCHANGED queued
           \/ wtype[w] = "MoveTo" /\ queued' = [queued EXCEPT ![d] = it]
    BY <1>10 DEF QueueCommand
  <2>2. CASE UNCHANGED queued
    BY <2>1, <2>2, ReturnKeepsDInv
  <2>3. CASE wtype[w] = "MoveTo" /\ queued' = [queued EXCEPT ![d] = it]
    <3>1. d \in Devices /\ it \in Targets /\ (kind[d] # "modbus" => Wire(kind[d], it) \in sent[d])
      BY <2>1, <2>3 DEF DInv, DevTypeOK, TargetInv, SentInv, Carried
    <3> USE DEF DInv, DevTypeOK, WriteReturns
    <3>2. DevTypeOK'
      BY <2>1, DeviceAssumption
    <3>3. LayerType' /\ StatusAgrees'
      BY <2>1, <2>3, <3>1 DEF LayerType, StatusAgrees
    <3>4. TargetInv' /\ CopyInv' /\ SentInv'
      BY <2>1 DEF TargetInv, CopyInv, SentInv, Carried
    <3>5. \A x \in Devices : queued'[x] = IF x = d THEN it ELSE queued[x]
      BY <2>3, <3>1 DEF LayerType
    <3> HIDE DEF it
    <3>6. ReportedWasSent'
      BY <2>1, <3>1, <3>5 DEF ReportedWasSent
    <3> QED  BY <3>2, <3>3, <3>4, <3>6
  <2> QED  BY <2>1, <2>2, <2>3
<1>8. ASSUME NEW t \in Tasks, UNCHANGED <<devVars, devices, protocols, halPc, queued>> PROVE DInv'
  BY <1>1, <1>8 DEF DInv, LayerType
<1>9. CASE UNCHANGED vars
  BY <1>1, <1>9 DEF vars, DInv, LayerType
<1> QED
  BY <1>2, <1>3, <1>5, <1>6, <1>7, <1>8, <1>9, <1>10 DEF Next, StopStep

\* The layer is type-correct: no interleaving of start and stop, allocation, device changes and
\* writes makes a table, a loop or a status record hold anything it should not.
THEOREM HALTypeCorrect == Spec => []TypeOK
<1>1. RInv /\ DInv => TypeOK
  BY DEF RInv, DInv, LayerType, TypeOK
<1> QED  BY RInvInit, RInvStep, DInvInit, DInvStep, <1>1, PTL DEF Spec

\* What Status() calls connected is what Write goes by, for any number of writers, unless the
\* device's last Connect or Disconnect came in the middle of a Write.
THEOREM StatusIsTrue == Spec => []StatusAgrees
<1>1. DInv => StatusAgrees
  BY DEF DInv
<1> QED  BY DInvInit, DInvStep, <1>1, PTL DEF Spec

\* A device reports, and the coordination layer hands on to the executor, only what some MoveTo
\* brought to the device entirely, as on the wire: whichever of the two writes of the hardware
\* wrapper fails, and whoever else writes, the status is stored and the command queued after both.
THEOREM PositionIsTrue == Spec => []ReportedWasSent
<1>1. DInv => ReportedWasSent
  BY DEF DInv
<1> QED  BY DInvInit, DInvStep, <1>1, PTL DEF Spec
=============================================================================
