--------------------------- MODULE SequenceLemmas ---------------------------
(* Facts about the sequence helpers the queue modules are built from. *)
EXTENDS Naturals, SequencesExt, SequenceTheorems, WellFoundedInduction, TLAPS

\* A non-empty set of numbers contains its least element: what the search loops rely on.
LEMMA MinIsMember ==
  ASSUME NEW I \in SUBSET Nat, I # {}
  PROVE  Min(I) \in I /\ \A j \in I : Min(I) <= j
<1>1. PICK x \in I : \A y \in I : ~(<<y, x>> \in OpToRel(<, Nat))
  BY WFMin, NatLessThanWellFounded
<1>2. ASSUME NEW y \in I PROVE x <= y
  <2>1. y < x => <<y, x>> \in OpToRel(<, Nat)
    BY DEF OpToRel
  <2>2. ~(y < x)
    BY <1>1, <2>1, Zenon
  <2> QED  BY <2>2
<1> QED  BY <1>2 DEF Min

\* append(s[:i], s[i+1:]...): the loop that takes an ID out of a task's list yields a list of IDs.
LEMMA RemoveAtType ==
  ASSUME NEW S, NEW s \in Seq(S), NEW k \in 1..Len(s)
  PROVE  RemoveAt(s, k) \in Seq(S)
<1>0. Len(s) \in Nat /\ \A i \in 1..Len(s) : s[i] \in S
  BY LenProperties, ElementOfSeq
<1>1. SubSeq(s, 1, k - 1) \in Seq(S)
  <2>1. k - 1 \in Int /\ \A i \in 1..(k - 1) : s[i] \in S
    BY <1>0
  <2> QED  BY <2>1, SubSeqProperties
<1>2. SubSeq(s, k + 1, Len(s)) \in Seq(S)
  <2>1. k + 1 \in Int /\ Len(s) \in Int /\ \A i \in (k + 1)..Len(s) : s[i] \in S
    BY <1>0
  <2> QED  BY <2>1, SubSeqProperties
<1> QED  BY <1>1, <1>2, ConcatProperties DEF RemoveAt

\* The same for the whole loop, which stops at the first match and does nothing without one.
LEMMA RemoveFirstType ==
  ASSUME NEW S, NEW s \in Seq(S), NEW e
  PROVE  RemoveFirst(s, e) \in Seq(S)
<1> DEFINE I == {i \in 1..Len(s) : s[i] = e}
<1>1. CASE I # {}
  <2>1. Min(I) \in I
    <3>1. I \in SUBSET Nat
      BY LenProperties
    <3> QED  BY <1>1, <3>1, MinIsMember
  <2>2. RemoveFirst(s, e) = RemoveAt(s, Min(I))
    BY <1>1 DEF RemoveFirst, SelectInSeq
  <2> QED  BY <2>1, <2>2, RemoveAtType
<1>2. CASE I = {}
  BY <1>2 DEF RemoveFirst
<1> QED  BY <1>1, <1>2

-----------------------------------------------------------------------------
(* Lists without repetition: what the queues of tasks and the loops over IDs are *)

Distinct(s) == \A i, j \in 1..Len(s) : s[i] = s[j] => i = j

\* An element is in a list when it is at one of its places.
LEMMA RangeMember ==
  ASSUME NEW S, NEW s \in Seq(S), NEW e
  PROVE  e \in Range(s) <=> \E i \in 1..Len(s) : s[i] = e
<1>1. DOMAIN s = 1..Len(s)
  BY LenProperties
<1> QED  BY <1>1 DEF Range

\* append(s, e) of something new.
LEMMA AppendDistinct ==
  ASSUME NEW S, NEW s \in Seq(S), NEW e \in S, e \notin Range(s), Distinct(s)
  PROVE  /\ Append(s, e) \in Seq(S) /\ Distinct(Append(s, e))
         /\ Range(Append(s, e)) = Range(s) \cup {e}
<1> DEFINE r == Append(s, e)
           n == Len(s)
<1>1. /\ r \in Seq(S) /\ n \in Nat /\ Len(r) = n + 1 /\ \A i \in 1..n : r[i] = s[i]
      /\ r[n + 1] = e
  BY AppendProperties, LenProperties
<1>2. \A x : x \in Range(s) <=> \E i \in 1..n : s[i] = x
  BY RangeMember
<1>3. \A x : x \in Range(r) <=> \E i \in 1..(n + 1) : r[i] = x
  <2>1. \A x : x \in Range(r) <=> \E i \in 1..Len(r) : r[i] = x
    <3> HIDE DEF r
    <3> QED  BY <1>1, RangeMember
  <2> QED  BY <1>1, <2>1
<1>4. \A i, j \in 1..n : s[i] = s[j] => i = j
  BY DEF Distinct
<1> HIDE DEF r, n
<1>5. \A i \in 1..(n + 1) : i = n + 1 \/ i \in 1..n
  BY <1>1
<1>6. n + 1 \in 1..(n + 1) /\ \A i \in 1..n : i \in 1..(n + 1)
  BY <1>1
<1>7. Range(r) = Range(s) \cup {e}
  BY <1>1, <1>2, <1>3, <1>5, <1>6
<1>8. \A i, j \in 1..(n + 1) : r[i] = r[j] => i = j
  <2> SUFFICES ASSUME NEW i \in 1..(n + 1), NEW j \in 1..(n + 1), r[i] = r[j] PROVE i = j
    OBVIOUS
  <2>1. \A k \in 1..n : r[k] # e
    BY <1>1, <1>2
  <2> QED  BY <1>1, <1>4, <1>5, <2>1
<1>9. Distinct(r)
  BY <1>1, <1>8 DEF Distinct
<1> QED  BY <1>1, <1>7, <1>9 DEF r

\* s[1:] of a list that is not empty.
LEMMA TailDistinct ==
  ASSUME NEW S, NEW s \in Seq(S), s # <<>>, Distinct(s)
  PROVE  /\ Tail(s) \in Seq(S) /\ Distinct(Tail(s))
         /\ Head(s) \in S /\ Head(s) \in Range(s)
         /\ Range(Tail(s)) = Range(s) \ {Head(s)}
<1> DEFINE r == Tail(s)
           n == Len(s)
<1>1. /\ r \in Seq(S) /\ n \in Nat \ {0} /\ Len(r) = n - 1 /\ \A i \in 1..Len(r) : r[i] = s[i + 1]
      /\ Head(s) = s[1] /\ Head(s) \in S
  BY HeadTailProperties, LenProperties, EmptySeq
<1>2. \A x : x \in Range(s) <=> \E i \in 1..n : s[i] = x
  BY RangeMember
<1>3. \A x : x \in Range(r) <=> \E i \in 1..(n - 1) : r[i] = x
  <2>1. \A x : x \in Range(r) <=> \E i \in 1..Len(r) : r[i] = x
    <3> HIDE DEF r
    <3> QED  BY <1>1, RangeMember
  <2> QED  BY <1>1, <2>1
<1>4. \A i, j \in 1..n : s[i] = s[j] => i = j
  BY DEF Distinct
<1>5. \A i \in 1..(n - 1) : r[i] = s[i + 1]
  BY <1>1
<1> HIDE DEF r, n
<1>6. 1 \in 1..n /\ \A i \in 1..(n - 1) : i + 1 \in 1..n /\ i + 1 # 1
  BY <1>1
<1>7. \A i \in 1..n : i = 1 \/ (i - 1 \in 1..(n - 1) /\ (i - 1) + 1 = i)
  BY <1>1
<1>8. ASSUME NEW x PROVE x \in Range(r) <=> x \in Range(s) /\ x # s[1]
  <2>1. ASSUME NEW i \in 1..(n - 1), r[i] = x PROVE x \in Range(s) /\ x # s[1]
    <3>1. s[i + 1] = x /\ i + 1 \in 1..n /\ i + 1 # 1
      BY <1>5, <1>6, <2>1
    <3> QED  BY <1>2, <1>4, <1>6, <3>1
  <2>2. ASSUME NEW i \in 1..n, s[i] = x, x # s[1] PROVE x \in Range(r)
    <3>1. i - 1 \in 1..(n - 1) /\ (i - 1) + 1 = i
      BY <1>7, <2>2
    <3>2. r[i - 1] = s[(i - 1) + 1]
      BY <1>5, <3>1
    <3>3. r[i - 1] = x
      BY <2>2, <3>1, <3>2
    <3> QED  BY <1>3, <3>1, <3>3
  <2> QED  BY <1>2, <1>3, <2>1, <2>2
<1>9. \A i, j \in 1..(n - 1) : r[i] = r[j] => i = j
  <2> SUFFICES ASSUME NEW i \in 1..(n - 1), NEW j \in 1..(n - 1), r[i] = r[j] PROVE i = j
    OBVIOUS
  <2>1. i + 1 = j + 1
    BY <1>4, <1>5, <1>6
  <2> QED  BY <1>1, <2>1
<1>10. Distinct(r)
  BY <1>1, <1>9 DEF Distinct, n
<1>11. s[1] \in Range(s)
  BY <1>2, <1>6
<1> QED  BY <1>1, <1>8, <1>10, <1>11 DEF r

\* append(s[:k], s[k+1:]...) takes one element out and leaves the others.
LEMMA RemoveAtDistinct ==
  ASSUME NEW S, NEW s \in Seq(S), NEW k \in 1..Len(s), Distinct(s)
  PROVE  /\ RemoveAt(s, k) \in Seq(S) /\ Distinct(RemoveAt(s, k))
         /\ s[k] \in S /\ s[k] \in Range(s)
         /\ Range(RemoveAt(s, k)) = Range(s) \ {s[k]}
<1> DEFINE n == Len(s)
           a == SubSeq(s, 1, k - 1)
           b == SubSeq(s, k + 1, n)
           r == RemoveAt(s, k)
<1>0. n \in Nat /\ k \in 1..n /\ \A i \in 1..n : s[i] \in S
  BY LenProperties, ElementOfSeq
<1>1. a \in Seq(S) /\ Len(a) = k - 1 /\ \A i \in 1..(k - 1) : a[i] = s[i]
  <2>1. 1 \in Int /\ k - 1 \in Int /\ \A i \in 1..(k - 1) : s[i] \in S
    BY <1>0
  <2>2. /\ a \in Seq(S) /\ Len(a) = (IF 1 <= k - 1 THEN (k - 1) - 1 + 1 ELSE 0)
        /\ \A i \in 1..((k - 1) - 1 + 1) : a[i] = s[1 + i - 1]
    BY <2>1, SubSeqProperties
  <2> HIDE DEF a
  <2>3. Len(a) = k - 1
    BY <1>0, <2>2
  <2>4. \A i \in 1..(k - 1) : i \in 1..((k - 1) - 1 + 1) /\ 1 + i - 1 = i
    BY <1>0
  <2> QED  BY <2>2, <2>3, <2>4
<1>2. b \in Seq(S) /\ Len(b) = n - k /\ \A i \in 1..(n - k) : b[i] = s[i + k]
  <2>1. k + 1 \in Int /\ n \in Int /\ \A i \in (k + 1)..n : s[i] \in S
    BY <1>0
  <2>2. /\ b \in Seq(S) /\ Len(b) = (IF k + 1 <= n THEN n - (k + 1) + 1 ELSE 0)
        /\ \A i \in 1..(n - (k + 1) + 1) : b[i] = s[(k + 1) + i - 1]
    BY <2>1, SubSeqProperties
  <2> HIDE DEF b, n
  <2>3. Len(b) = n - k
    BY <1>0, <2>2
  <2>4. \A i \in 1..(n - k) : i \in 1..(n - (k + 1) + 1) /\ (k + 1) + i - 1 = i + k
    BY <1>0
  <2> QED  BY <2>2, <2>3, <2>4
<1>3. r = a \o b
  BY DEF RemoveAt
<1> HIDE DEF a, b, r, n
<1>4. /\ r \in Seq(S) /\ Len(r) = n - 1
      /\ \A i \in 1..(n - 1) : r[i] = IF i < k THEN s[i] ELSE s[i + 1]
  <2>1. /\ r \in Seq(S) /\ Len(r) = Len(a) + Len(b)
        /\ \A i \in 1..(Len(a) + Len(b)) : r[i] = IF i <= Len(a) THEN a[i] ELSE b[i - Len(a)]
    BY <1>1, <1>2, <1>3, ConcatProperties
  <2>2. Len(a) + Len(b) = n - 1
    BY <1>0, <1>1, <1>2
  <2>3. ASSUME NEW i \in 1..(n - 1) PROVE r[i] = IF i < k THEN s[i] ELSE s[i + 1]
    <3>1. CASE i < k
      <4>1. i \in 1..(k - 1) /\ i <= Len(a)
        BY <1>0, <1>1, <3>1
      <4> QED  BY <1>1, <2>1, <2>2, <3>1, <4>1
    <3>2. CASE ~(i < k)
      <4>1. i - (k - 1) \in 1..(n - k) /\ (i - (k - 1)) + k = i + 1 /\ ~(i <= Len(a))
        BY <1>0, <1>1, <3>2
      <4>2. b[i - (k - 1)] = s[i + 1]
        BY <1>2, <4>1
      <4> QED  BY <1>1, <2>1, <2>2, <3>2, <4>1, <4>2
    <3> QED  BY <3>1, <3>2
  <2> QED  BY <2>1, <2>2, <2>3
<1> DEFINE from(i) == IF i < k THEN i ELSE i + 1
<1>5. \A i \in 1..(n - 1) : r[i] = s[from(i)] /\ from(i) \in 1..n /\ from(i) # k
  BY <1>0, <1>4
<1>6. \A i, j \in 1..(n - 1) : from(i) = from(j) => i = j
  BY <1>0
<1>7. \A j \in 1..n : j # k => \E i \in 1..(n - 1) : from(i) = j
  <2> SUFFICES ASSUME NEW j \in 1..n, j # k PROVE \E i \in 1..(n - 1) : from(i) = j
    OBVIOUS
  <2>1. CASE j < k
    <3>1. j \in 1..(n - 1) /\ from(j) = j
      BY <1>0, <2>1
    <3> QED  BY <3>1
  <2>2. CASE ~(j < k)
    <3>1. j - 1 \in 1..(n - 1) /\ from(j - 1) = j
      BY <1>0, <2>2
    <3> QED  BY <3>1
  <2> QED  BY <2>1, <2>2
<1> HIDE DEF from
<1>8. \A i, j \in 1..n : s[i] = s[j] => i = j
  BY DEF Distinct, n
<1>9. Distinct(r)
  <2>1. \A i, j \in 1..(n - 1) : r[i] = r[j] => i = j
    BY <1>5, <1>6, <1>8
  <2> QED  BY <1>4, <2>1 DEF Distinct
<1>10. \A x : x \in Range(s) <=> \E i \in 1..n : s[i] = x
  BY RangeMember DEF n
<1>11. \A x : x \in Range(r) <=> \E i \in 1..(n - 1) : r[i] = x
  BY <1>4, RangeMember
<1>12. ASSUME NEW x PROVE x \in Range(r) <=> x \in Range(s) /\ x # s[k]
  <2>1. ASSUME NEW i \in 1..(n - 1), r[i] = x PROVE x \in Range(s) /\ x # s[k]
    BY <1>0, <1>5, <1>8, <1>10, <2>1
  <2>2. ASSUME NEW j \in 1..n, s[j] = x, x # s[k] PROVE x \in Range(r)
    BY <1>5, <1>7, <1>11, <2>2
  <2> QED  BY <1>10, <1>11, <2>1, <2>2
<1> QED  BY <1>0, <1>4, <1>9, <1>10, <1>12 DEF r

-----------------------------------------------------------------------------
(* Channels: what is in them, and what a reader has read of what was written *)

\* A channel after a send, a receive, and two one after the other.
LEMMA AppendRange ==
  ASSUME NEW S, NEW s \in Seq(S), NEW e \in S
  PROVE  Append(s, e) \in Seq(S) /\ Len(Append(s, e)) = Len(s) + 1 /\ Range(Append(s, e)) = Range(s) \cup {e}
<1>1. Append(s, e) = s \o <<e>> /\ <<e>> \in Seq(S)
  BY AppendIsConcat
<1>2. Range(<<e>>) = {e}
  BY DEF Range
<1>3. Range(s \o <<e>>) = Range(s) \cup Range(<<e>>)
  <2> DEFINE t == <<e>>
  <2>1. t \in Seq(S)
    BY <1>1
  <2> HIDE DEF t
  <2>2. Range(s \o t) = Range(s) \cup Range(t)
    BY <2>1, RangeConcatenation
  <2> QED  BY <2>2 DEF t
<1> QED  BY <1>1, <1>2, <1>3, AppendProperties

LEMMA TailRange ==
  ASSUME NEW S, NEW s \in Seq(S), s # <<>>
  PROVE  /\ Tail(s) \in Seq(S) /\ Len(s) \in Nat \ {0} /\ Len(Tail(s)) = Len(s) - 1 /\ Head(s) \in S
         /\ Head(s) \in Range(s) /\ Range(Tail(s)) \subseteq Range(s)
<1> DEFINE r == Tail(s)
           n == Len(s)
<1>1. /\ r \in Seq(S) /\ n \in Nat \ {0} /\ Len(r) = n - 1 /\ \A i \in 1..Len(r) : r[i] = s[i + 1]
      /\ Head(s) = s[1] /\ Head(s) \in S
  BY HeadTailProperties, LenProperties, EmptySeq
<1>2. \A x : x \in Range(s) <=> \E i \in 1..n : s[i] = x
  BY RangeMember
<1> HIDE DEF r
<1>3. \A x : x \in Range(r) => \E i \in 1..Len(r) : r[i] = x
  BY <1>1, RangeMember
<1> HIDE DEF n
<1>4. 1 \in 1..n /\ \A i \in 1..(n - 1) : i + 1 \in 1..n
  BY <1>1
<1>5. Head(s) \in Range(s)
  BY <1>1, <1>2, <1>4
<1>6. \A x : x \in Range(r) => x \in Range(s)
  BY <1>1, <1>2, <1>3, <1>4
<1> QED  BY <1>1, <1>5, <1>6 DEF r, n

LEMMA ConcatRange ==
  ASSUME NEW S, NEW s \in Seq(S), NEW t \in Seq(S)
  PROVE  s \o t \in Seq(S) /\ Len(s \o t) = Len(s) + Len(t) /\ Range(s \o t) = Range(s) \cup Range(t)
  BY ConcatProperties, RangeConcatenation

\* w is a beginning of s.
Begins(w, s) == Len(w) <= Len(s) /\ w = SubSeq(s, 1, Len(w))

LEMMA BeginsPointwise ==
  ASSUME NEW S, NEW w \in Seq(S), NEW s \in Seq(S)
  PROVE  Begins(w, s) <=> Len(w) <= Len(s) /\ \A i \in 1..Len(w) : w[i] = s[i]
<1> SUFFICES ASSUME Len(w) <= Len(s) PROVE w = SubSeq(s, 1, Len(w)) <=> \A i \in 1..Len(w) : w[i] = s[i]
  BY DEF Begins
<1> DEFINE n == Len(w)
           r == SubSeq(s, 1, n)
<1>1. n \in Nat /\ Len(s) \in Nat /\ n <= Len(s) /\ \A i \in 1..Len(s) : s[i] \in S
  BY LenProperties, ElementOfSeq
<1>2. /\ r \in Seq(S) /\ Len(r) = (IF 1 <= n THEN n - 1 + 1 ELSE 0)
      /\ \A i \in 1..(n - 1 + 1) : r[i] = s[1 + i - 1]
  <2>1. 1 \in Int /\ n \in Int /\ \A i \in 1..n : s[i] \in S
    BY <1>1
  <2> HIDE DEF n
  <2> QED  BY <2>1, SubSeqProperties
<1> HIDE DEF r, n
<1>3. Len(r) = n /\ \A i \in 1..n : i \in 1..(n - 1 + 1) /\ 1 + i - 1 = i
  BY <1>1, <1>2
<1>4. \A i \in 1..n : r[i] = s[i]
  BY <1>2, <1>3
<1>5. w = r <=> \A i \in 1..n : w[i] = r[i]
  BY <1>2, <1>3, SeqEqual DEF n
<1> QED  BY <1>4, <1>5 DEF r, n

\* A reader that has read w of w \o q has read a beginning.
LEMMA BeginsConcat ==
  ASSUME NEW S, NEW w \in Seq(S), NEW q \in Seq(S)
  PROVE  Begins(w, w \o q)
<1>1. /\ w \o q \in Seq(S) /\ Len(w \o q) = Len(w) + Len(q) /\ Len(w) \in Nat /\ Len(q) \in Nat
      /\ \A i \in 1..(Len(w) + Len(q)) : (w \o q)[i] = IF i <= Len(w) THEN w[i] ELSE q[i - Len(w)]
  BY ConcatProperties, LenProperties
<1> DEFINE r == w \o q
           n == Len(w)
           m == Len(q)
<1> HIDE DEF r, n, m
<1>2. r \in Seq(S) /\ Len(r) = n + m /\ n \in Nat /\ m \in Nat /\ \A i \in 1..(n + m) : r[i] = IF i <= n THEN w[i] ELSE q[i - n]
  BY <1>1 DEF r, n, m
<1>3. n <= n + m /\ \A i \in 1..n : i \in 1..(n + m) /\ i <= n
  BY <1>2
<1>4. \A i \in 1..n : w[i] = r[i]
  BY <1>2, <1>3
<1>5. Begins(w, r)
  BY <1>2, <1>3, <1>4, BeginsPointwise DEF n
<1> QED  BY <1>5 DEF r

\* More is written: it still is one.
LEMMA BeginsAppend ==
  ASSUME NEW S, NEW w \in Seq(S), NEW s \in Seq(S), NEW e \in S, Begins(w, s)
  PROVE  Begins(w, Append(s, e))
<1> DEFINE r == Append(s, e)
           n == Len(s)
           m == Len(w)
<1>1. r \in Seq(S) /\ n \in Nat /\ m \in Nat /\ Len(r) = n + 1 /\ \A i \in 1..n : r[i] = s[i]
  BY AppendProperties, LenProperties
<1>2. m <= n /\ \A i \in 1..m : w[i] = s[i]
  BY BeginsPointwise
<1> HIDE DEF r, n, m
<1>3. m <= n + 1 /\ \A i \in 1..m : i \in 1..n
  BY <1>1, <1>2
<1>4. \A i \in 1..m : w[i] = r[i]
  BY <1>1, <1>2, <1>3
<1>5. Begins(w, r)
  BY <1>1, <1>3, <1>4, BeginsPointwise DEF m
<1> QED  BY <1>5 DEF r

\* A message joins what is unread.
LEMMA ConcatAppend ==
  ASSUME NEW S, NEW w \in Seq(S), NEW q \in Seq(S), NEW e \in S
  PROVE  w \o Append(q, e) = Append(w \o q, e)
<1>1. <<e>> \in Seq(S) /\ w \o q \in Seq(S)
  BY ConcatProperties
<1>2. Append(q, e) = q \o <<e>> /\ Append(w \o q, e) = (w \o q) \o <<e>>
  BY <1>1, AppendIsConcat
<1> QED  BY <1>1, <1>2, ConcatAssociative

\* The reader takes the next one.
LEMMA ConcatMove ==
  ASSUME NEW S, NEW w \in Seq(S), NEW q \in Seq(S), q # <<>>
  PROVE  Append(w, Head(q)) \o Tail(q) = w \o q
<1>1. Head(q) \in S /\ Tail(q) \in Seq(S) /\ <<Head(q)>> \in Seq(S) /\ Len(q) \in Nat \ {0}
  BY HeadTailProperties, EmptySeq
<1>2. q = <<Head(q)>> \o Tail(q)
  <2>1. 1 \in 1..Len(q) /\ Len(q) \in 1..Len(q)
    BY <1>1
  <2>2. SubSeq(q, 1, Len(q)) = <<q[1]>> \o SubSeq(q, 1 + 1, Len(q))
    BY <2>1, SubSeqRecursiveFirst
  <2>3. SubSeq(q, 1, Len(q)) = q /\ Tail(q) = SubSeq(q, 2, Len(q)) /\ 1 + 1 = 2 /\ q[1] = Head(q)
    BY SubSeqFull, TailIsSubSeq
  <2> QED  BY <2>2, <2>3
<1>3. Append(w, Head(q)) = w \o <<Head(q)>>
  BY <1>1, AppendIsConcat
<1> QED  BY <1>1, <1>2, <1>3, ConcatAssociative

-----------------------------------------------------------------------------
(* Loops: a recursive function on 0..n has a value at every place *)

\* g is what a loop over 1..n makes of x0, one step of d after the other.
IsLoop(g, n, x0, d) == g[0] = x0 /\ \A i \in 1..n : g[i] = d[i][g[i - 1]]

\* A loop over 1..n that starts with x0 and goes on with d has a value at every place.
LEMMA LoopExists ==
  ASSUME NEW X, NEW n \in Nat, NEW x0 \in X, NEW d \in [1..n -> [X -> X]]
  PROVE  \E g \in [0..n -> X] : IsLoop(g, n, x0, d)
<1> DEFINE Good(m) == \E g \in [0..m -> X] : g[0] = x0 /\ \A i \in 1..m : g[i] = d[i][g[i - 1]]
           Bad == {m \in 0..n : ~Good(m)}
<1>1. Good(0)
  <2> DEFINE g == [i \in 0..0 |-> x0]
  <2>1. g \in [0..0 -> X] /\ g[0] = x0 /\ \A i \in 1..0 : g[i] = d[i][g[i - 1]]
    OBVIOUS
  <2> QED  BY <2>1
<1>2. ASSUME NEW m \in 0..n, m < n, Good(m) PROVE Good(m + 1)
  <2>1. PICK g \in [0..m -> X] : g[0] = x0 /\ \A i \in 1..m : g[i] = d[i][g[i - 1]]
    BY <1>2
  <2> DEFINE h == [i \in 0..(m + 1) |-> IF i = m + 1 THEN d[m + 1][g[m]] ELSE g[i]]
  <2>2. g[m] \in X /\ m + 1 \in 1..n
    BY <1>2, <2>1
  <2>3. d[m + 1][g[m]] \in X
    BY <2>2
  <2>4. h \in [0..(m + 1) -> X]
    BY <2>1, <2>3
  <2>5. h[0] = x0
    BY <2>1
  <2>6. ASSUME NEW i \in 1..(m + 1) PROVE h[i] = d[i][h[i - 1]]
    <3>1. i - 1 \in 0..m /\ h[i - 1] = g[i - 1]
      BY <2>1
    <3>2. CASE i = m + 1
      <4>1. h[i] = d[m + 1][g[m]] /\ i - 1 = m
        BY <3>2
      <4> QED  BY <3>1, <3>2, <4>1
    <3>3. CASE i # m + 1
      <4>1. i \in 1..m /\ h[i] = g[i]
        BY <3>3
      <4> QED  BY <2>1, <3>1, <4>1
    <3> QED  BY <3>2, <3>3
  <2> HIDE DEF h
  <2> QED  BY <2>4, <2>5, <2>6
<1>3. Bad = {}
  <2> SUFFICES ASSUME Bad # {} PROVE FALSE
    OBVIOUS
  <2> DEFINE m == Min(Bad)
  <2>1. m \in Bad /\ \A j \in Bad : m <= j
    <3>1. Bad \in SUBSET Nat
      OBVIOUS
    <3> HIDE DEF Bad
    <3> QED  BY <3>1, MinIsMember
  <2> HIDE DEF m, Good
  <2>2. m # 0 /\ m \in 0..n /\ ~Good(m)
    BY <1>1, <2>1
  <2>3. m - 1 \in 0..n /\ m - 1 < n /\ (m - 1) + 1 = m
    BY <2>2
  <2>4. m - 1 \notin Bad
    BY <2>1, <2>2, <2>3
  <2>5. Good(m - 1)
    BY <2>3, <2>4
  <2>6. Good((m - 1) + 1)
    BY <1>2, <2>3, <2>5
  <2> QED  BY <2>2, <2>3, <2>6
<1> HIDE DEF Good
<1>4. Good(n)
  BY <1>3
<1> QED  BY <1>4 DEF Good, IsLoop
=============================================================================
