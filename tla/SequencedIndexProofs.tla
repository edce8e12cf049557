------------------------ MODULE SequencedIndexProofs ------------------------
(***************************************************************************)
(* Proofs about SequencedIndex and RandomAccessIndex, for every number of  *)
(* nodes: the assignments to head_, tail_ and the links are the operations *)
(* on a sequence, the array of the other index is the registry, and both   *)
(* can be walked while they change.                                        *)
(***************************************************************************)
EXTENDS RandomAccessIndex, SequenceLemmas, FiniteSetTheorems

Lists == [ head : Node \cup {Nil}, tail : Node \cup {Nil},
           prev : [Node -> Node \cup {Nil}], next : [Node -> Node \cup {Nil}] ]

\* What is at place i of s, Nil in front of the first and behind the last place.
At(s, i) == IF i \in 1..Len(s) THEN s[i] ELSE Nil

\* The list l has the nodes of s, in this order.
IsList(l, s) ==
  /\ l \in Lists /\ s \in Seq(Node) /\ IsInjective(s)
  /\ l.head = At(s, 1) /\ l.tail = At(s, Len(s))
  /\ \A i \in 1..Len(s) : l.next[s[i]] = At(s, i + 1) /\ l.prev[s[i]] = At(s, i - 1)

-----------------------------------------------------------------------------
(* Reading a list.                                                         *)

\* A sequence without repetitions is no longer than there are nodes.
LEMMA ListIsShort ==
  ASSUME NEW s \in Seq(Node), IsInjective(s)
  PROVE  Cardinality(Node) \in Nat /\ Len(s) <= Cardinality(Node)
<1>1. Len(s) \in Nat /\ s \in [1..Len(s) -> Node]
  BY LenProperties
<1>2. s \in Injection(1..Len(s), Node)
  BY <1>1 DEF Injection
<1>3. IsFiniteSet(Node)
  BY NilAssumption
<1>4. Cardinality(1..Len(s)) = Len(s)
  BY <1>1, PlacesCount
<1>5. Cardinality(1..Len(s)) <= Cardinality(Node)
  <2> DEFINE I == 1..Len(s)
  <2>1. s \in Injection(I, Node)
    BY <1>2
  <2> HIDE DEF I
  <2>2. Cardinality(I) <= Cardinality(Node)
    BY <1>3, <2>1, FS_Injection
  <2> QED
    BY <2>2 DEF I
<1> QED
  BY <1>3, <1>4, <1>5, FS_CardinalityType

\* The places that following the links f from n on comes to.
Trail(f, n, room) ==
  CHOOSE at : at = [i \in 1..room |-> IF i = 1 THEN n ELSE Follow(f, at[i - 1])]

LEMMA TrailExists ==
  ASSUME NEW f, NEW n, NEW room \in Nat
  PROVE  Trail(f, n, room) =
           [i \in 1..room |-> IF i = 1 THEN n ELSE Follow(f, Trail(f, n, room)[i - 1])]
<1> DEFINE Follows(g, j) == g = [i \in 1..j |-> IF i = 1 THEN n ELSE Follow(f, g[i - 1])]
           T == {j \in Nat : \E g : Follows(g, j)}
<1>1. 0 \in T
  <2> DEFINE g == [i \in 1..0 |-> n]
  <2>1. Follows(g, 0)
    OBVIOUS
  <2> QED
    BY <2>1
<1>2. ASSUME NEW j \in Nat, j \in T
      PROVE  j + 1 \in T
  <2>1. PICK g : Follows(g, j)
    BY <1>2
  <2> DEFINE last == IF j = 0 THEN n ELSE Follow(f, g[j])
             h == [i \in 1..(j + 1) |-> IF i = j + 1 THEN last ELSE g[i]]
  <2>2. ASSUME NEW i \in 1..(j + 1)
        PROVE  h[i] = IF i = 1 THEN n ELSE Follow(f, h[i - 1])
    <3>1. CASE i # j + 1
      <4>1. i \in 1..j /\ h[i] = g[i]
        BY <3>1
      <4>2. i # 1 => i - 1 \in 1..(j + 1) /\ h[i - 1] = g[i - 1]
        BY <3>1
      <4> HIDE DEF h
      <4>3. g[i] = IF i = 1 THEN n ELSE Follow(f, g[i - 1])
        BY <2>1, <4>1
      <4> QED
        BY <4>1, <4>2, <4>3
    <3>2. CASE i = j + 1 /\ j = 0
      BY <3>2
    <3>3. CASE i = j + 1 /\ j # 0
      <4>1. j \in 1..(j + 1) /\ j # j + 1 /\ i - 1 = j /\ i # 1
        BY <3>3
      <4>2. h[j] = g[j] /\ h[i] = Follow(f, g[j])
        BY <3>3, <4>1
      <4> QED
        BY <4>1, <4>2
    <3> QED
      BY <3>1, <3>2, <3>3
  <2>3. Follows(h, j + 1)
    <3>1. h = [i \in 1..(j + 1) |-> h[i]]
      OBVIOUS
    <3> HIDE DEF h
    <3> QED
      BY <2>2, <3>1
  <2> HIDE DEF Follows
  <2> QED
    BY <2>3
<1> HIDE DEF T
<1>3. room \in T
  BY <1>1, <1>2, InductiveSet
<1>4. \E g : g = [i \in 1..room |-> IF i = 1 THEN n ELSE Follow(f, g[i - 1])]
  BY <1>3 DEF T
<1> QED
  BY <1>4 DEF Trail

\* Following links that lead through s reads s.
LEMMA ReadsList ==
  ASSUME NEW s \in Seq(Node), IsInjective(s), NEW f, NEW n, n = At(s, 1),
         \A i \in 1..Len(s) : f[s[i]] = At(s, i + 1)
  PROVE  From(f, n) = s
<1> DEFINE room == Cardinality(Node) + 1
           at == Trail(f, n, room)
           k == Len(s)
           T == {j \in Nat : j + 1 \in 1..room => at[j + 1] = At(s, j + 1)}
<1>1. k \in Nat /\ room \in Nat /\ k < room /\ room >= 1 /\ \A i \in 1..k : s[i] \in Node
  BY ListIsShort, LenProperties
<1> HIDE DEF room
<1>2. at = [i \in 1..room |-> IF i = 1 THEN n ELSE Follow(f, at[i - 1])]
  BY <1>1, TrailExists
<1> HIDE DEF at
<1>3. 0 \in T
  BY <1>1, <1>2
<1>4. ASSUME NEW j \in Nat, j \in T
      PROVE  j + 1 \in T
  <2> SUFFICES ASSUME j + 1 + 1 \in 1..room
               PROVE  at[j + 1 + 1] = At(s, j + 1 + 1)
    OBVIOUS
  <2>1. at[j + 1] = At(s, j + 1)
    BY <1>1, <1>4
  <2>2. at[j + 1 + 1] = Follow(f, at[j + 1])
    <3>1. (j + 1 + 1) - 1 = j + 1 /\ j + 1 + 1 # 1
      OBVIOUS
    <3> QED
      BY <1>2, <3>1
  <2>3. CASE j + 1 \in 1..k
    <3>1. at[j + 1] = s[j + 1] /\ s[j + 1] # Nil
      BY <1>1, <2>1, <2>3, NilAssumption DEF At
    <3>2. f[s[j + 1]] = At(s, j + 1 + 1)
      BY <2>3
    <3> QED
      BY <2>2, <3>1, <3>2 DEF Follow
  <2>4. CASE j + 1 \notin 1..k
    <3>1. j + 1 + 1 \notin 1..k
      BY <1>1, <2>4
    <3> QED
      BY <2>1, <2>2, <2>4, <3>1 DEF At, Follow
  <2> QED
    BY <2>3, <2>4
<1>5. \A i \in 1..room : at[i] = At(s, i)
  <2> HIDE DEF T
  <2>1. \A j \in Nat : j \in T
    BY <1>3, <1>4, InductiveSet
  <2> USE DEF T
  <2> SUFFICES ASSUME NEW i \in 1..room PROVE at[i] = At(s, i)
    OBVIOUS
  <2>2. i - 1 \in Nat /\ (i - 1) + 1 = i
    BY <1>1
  <2> QED
    BY <2>1, <2>2
<1>6. {i \in 1..room : at[i] # Nil} = 1..k
  <2>1. \A i \in 1..room : at[i] # Nil <=> i \in 1..k
    BY <1>1, <1>5, NilAssumption DEF At
  <2>2. 1..k \subseteq 1..room
    BY <1>1
  <2> QED
    BY <2>1, <2>2
<1>7. Cardinality({i \in 1..room : at[i] # Nil}) = k
  <2>1. Cardinality(1..k) = k
    <3> HIDE DEF k
    <3> QED
      BY <1>1, PlacesCount
  <2> QED
    BY <1>6, <2>1, Zenon
<1>8. From(f, n) = SubSeq(at, 1, k)
  <2>1. From(f, n) = SubSeq(at, 1, Cardinality({i \in 1..room : at[i] # Nil}))
    BY DEF From, room, at, Trail
  <2> QED
    BY <1>7, <2>1
<1>9. SubSeq(at, 1, k) = s
  <2> DEFINE t == SubSeq(at, 1, k)
  <2>1. \A i \in 1..k : i \in 1..room /\ at[i] = s[i]
    BY <1>1, <1>5 DEF At
  <2>2. /\ t \in Seq(Node) /\ Len(t) = (IF 1 <= k THEN k - 1 + 1 ELSE 0)
        /\ \A i \in 1..(k - 1 + 1) : t[i] = at[1 + i - 1]
    <3>1. \A i \in 1..k : at[i] \in Node
      BY <1>1, <2>1
    <3> QED
      BY <1>1, <3>1, SubSeqProperties
  <2>3. Len(t) = k /\ \A i \in 1..k : t[i] = at[i]
    BY <1>1, <2>2
  <2>4. Len(t) = Len(s) /\ \A i \in 1..Len(t) : t[i] = s[i]
    BY <2>1, <2>3
  <2> HIDE DEF t, k
  <2> QED
    BY <2>2, <2>4, SeqEqual DEF t
<1> QED
  BY <1>8, <1>9

\* A list is what reading its links gives, in both directions.
LEMMA ListIsRead ==
  ASSUME NEW l, NEW s, IsList(l, s)
  PROVE  From(l.next, l.head) = s /\ From(l.prev, l.tail) = Reverse(s)
<1>1. s \in Seq(Node) /\ IsInjective(s) /\ Len(s) \in Nat /\ DOMAIN s = 1..Len(s)
      /\ \A i \in 1..Len(s) : s[i] \in Node
  BY LenProperties DEF IsList
<1>2. From(l.next, l.head) = s
  <2>1. \A i \in 1..Len(s) : l.next[s[i]] = At(s, i + 1)
    BY DEF IsList
  <2>2. l.head = At(s, 1)
    BY DEF IsList
  <2> QED
    BY <1>1, <2>1, <2>2, ReadsList
<1> DEFINE t == Reverse(s)
<1>3. /\ t \in Seq(Node) /\ Len(t) = Len(s)
      /\ \A i \in 1..Len(s) : t[i] = s[Len(s) - i + 1]
  BY <1>1, Reversal
<1>4. IsInjective(t)
  BY <1>1, Reversal
<1> HIDE DEF t
<1>5. l.tail = At(t, 1)
  <2>1. l.tail = At(s, Len(s))
    BY DEF IsList
  <2>2. Len(s) # 0 => t[1] = s[Len(s)]
    BY <1>1, <1>3
  <2> QED
    BY <1>1, <1>3, <2>1, <2>2 DEF At
<1>6. ASSUME NEW i \in 1..Len(t)
      PROVE  l.prev[t[i]] = At(t, i + 1)
  <2> DEFINE j == Len(s) - i + 1
  <2>1. j \in 1..Len(s) /\ t[i] = s[j]
    BY <1>1, <1>3
  <2>2. l.prev[s[j]] = At(s, j - 1)
    BY <2>1 DEF IsList
  <2>3. CASE i = Len(s)
    BY <1>1, <1>3, <2>1, <2>2, <2>3 DEF At
  <2>4. CASE i < Len(s)
    <3>1. i + 1 \in 1..Len(s) /\ Len(s) - (i + 1) + 1 = j - 1 /\ j - 1 \in 1..Len(s)
      BY <1>1, <1>3, <2>4
    <3>2. t[i + 1] = s[j - 1]
      BY <1>3, <3>1
    <3> QED
      BY <1>3, <2>1, <2>2, <3>1, <3>2 DEF At
  <2>5. i = Len(s) \/ i < Len(s)
    <3>1. Len(s) \in Nat /\ i \in 1..Len(s)
      BY <1>1, <1>3
    <3> QED
      BY <3>1
  <2> QED
    BY <2>3, <2>4, <2>5
<1>7. From(l.prev, l.tail) = t
  <2>1. t \in Seq(Node)
    BY <1>3
  <2>2. \A i \in 1..Len(t) : l.prev[t[i]] = At(t, i + 1)
    BY <1>6
  <2> QED
    BY <1>4, <1>5, <2>1, <2>2, ReadsList
<1> QED
  BY <1>2, <1>7 DEF t

-----------------------------------------------------------------------------
(* Writing a list.                                                         *)

\* The list r is l with b as the successor of a.
IsJoined(r, l, a, b) ==
  /\ r \in Lists
  /\ r.head = (IF a = Nil THEN b ELSE l.head)
  /\ r.tail = (IF b = Nil THEN a ELSE l.tail)
  /\ \A m \in Node : r.next[m] = IF m = a THEN b ELSE l.next[m]
  /\ \A m \in Node : r.prev[m] = IF m = b THEN a ELSE l.prev[m]

\* The two assignments that make b the successor of a.
LEMMA Joined ==
  ASSUME NEW l \in Lists, NEW a \in Node \cup {Nil}, NEW b \in Node \cup {Nil}
  PROVE  IsJoined(SetPrev(SetNext(l, a, b), b, a), l, a, b)
<1> DEFINE k == SetNext(l, a, b)
           r == SetPrev(k, b, a)
<1>1. /\ k \in Lists /\ k.tail = l.tail /\ k.prev = l.prev
      /\ k.head = (IF a = Nil THEN b ELSE l.head)
      /\ \A m \in Node : k.next[m] = IF m = a THEN b ELSE l.next[m]
  <2>1. CASE a = Nil
    BY <2>1, NilAssumption DEF SetNext, Lists
  <2>2. CASE a # Nil
    BY <2>2 DEF SetNext, Lists
  <2> QED
    BY <2>1, <2>2
<1> HIDE DEF k
<1>2. /\ r \in Lists /\ r.head = k.head /\ r.next = k.next
      /\ r.tail = (IF b = Nil THEN a ELSE k.tail)
      /\ \A m \in Node : r.prev[m] = IF m = b THEN a ELSE k.prev[m]
  <2>1. CASE b = Nil
    BY <1>1, <2>1, NilAssumption DEF SetPrev, Lists
  <2>2. CASE b # Nil
    BY <1>1, <2>2 DEF SetPrev, Lists
  <2> QED
    BY <2>1, <2>2
<1> HIDE DEF r
<1>3. IsJoined(r, l, a, b)
  BY <1>1, <1>2 DEF IsJoined
<1> QED
  BY <1>3 DEF k, r

\* unlink
LEMMA UnlinkedList ==
  ASSUME NEW l, NEW s, IsList(l, s), NEW n \in ToSet(s)
  PROVE  IsList(Unlinked(l, n), RemoveFirst(s, n))
<1>1. /\ l \in Lists /\ s \in Seq(Node) /\ IsInjective(s) /\ Len(s) \in Nat
      /\ DOMAIN s = 1..Len(s) /\ \A i \in 1..Len(s) : s[i] \in Node
  BY LenProperties DEF IsList
<1>2. PICK at \in 1..Len(s) : n = s[at]
  BY <1>1 DEF ToSet
<1> DEFINE a == At(s, at - 1)
           b == At(s, at + 1)
           t == RemoveFirst(s, n)
           r == Unlinked(l, n)
           k == Len(s)
<1>3. l.prev[n] = a /\ l.next[n] = b /\ n \in Node
  BY <1>1, <1>2 DEF IsList
<1>4. a \in Node \cup {Nil} /\ b \in Node \cup {Nil}
  BY <1>1 DEF At
<1>5. /\ r \in Lists
      /\ r.head = (IF a = Nil THEN b ELSE l.head) /\ r.tail = (IF b = Nil THEN a ELSE l.tail)
      /\ \A m \in Node : r.next[m] = IF m = a THEN b ELSE l.next[m]
      /\ \A m \in Node : r.prev[m] = IF m = b THEN a ELSE l.prev[m]
  <2>1. r = SetPrev(SetNext(l, a, b), b, a)
    BY <1>3 DEF Unlinked
  <2>2. l \in Lists
    BY <1>1
  <2> HIDE DEF a, b, r
  <2>3. IsJoined(r, l, a, b)
    BY <1>4, <2>1, <2>2, Joined
  <2> QED
    BY <2>3 DEF IsJoined
<1>6. /\ t \in Seq(Node) /\ Len(t) = k - 1
      /\ \A i \in 1..(k - 1) : t[i] = IF i < at THEN s[i] ELSE s[i + 1]
  BY <1>1, <1>2, RemovedAt
<1>7. IsInjective(t)
  <2>1. s \in Seq(Node) /\ IsInjective(s)
    BY <1>1
  <2> QED
    BY <2>1, RemovedOnce
<1>0. k \in Nat /\ at \in 1..k /\ (at = k \/ at < k) /\ (at = 1 \/ at > 1)
  <2>1. k \in Nat /\ at \in 1..k
    BY <1>1
  <2> HIDE DEF k
  <2> QED
    BY <2>1
<1> HIDE DEF t, r
<1>8. \A i, j \in 1..k : s[i] = s[j] => i = j
  BY <1>1 DEF IsInjective
<1>9. /\ at > 1 => a = s[at - 1] /\ a \in Node
      /\ at = 1 => a = Nil
      /\ at < k => b = s[at + 1] /\ b \in Node
      /\ at = k => b = Nil
  <2>1. at > 1 => at - 1 \in 1..k
    BY <1>1, <1>2
  <2>2. at < k => at + 1 \in 1..k
    BY <1>1, <1>2
  <2>3. 1 - 1 \notin 1..k /\ k + 1 \notin 1..k
    BY <1>1
  <2>4. at > 1 => a = s[at - 1] /\ a \in Node
    BY <1>1, <2>1 DEF At
  <2>5. at < k => b = s[at + 1] /\ b \in Node
    BY <1>1, <2>2 DEF At
  <2>6. (at = 1 => a = Nil) /\ (at = k => b = Nil)
    BY <2>3 DEF At
  <2> QED
    BY <2>4, <2>5, <2>6
<1>10. l.head = s[1] /\ l.tail = s[k]
  BY <1>1, <1>2 DEF IsList, At
<1>11. r.head = At(t, 1)
  <2>1. CASE at = 1 /\ k = 1
    BY <1>5, <1>6, <1>9, <2>1 DEF At
  <2>2. CASE at = 1 /\ k # 1
    BY <1>1, <1>5, <1>6, <1>9, <2>2 DEF At
  <2>3. CASE at # 1
    <3>1. at > 1 /\ 1 \in 1..(k - 1) /\ 1 < at
      BY <1>1, <1>2, <2>3
    <3>2. r.head = l.head
      BY <1>5, <1>9, <3>1, NilAssumption
    <3>3. At(t, 1) = s[1]
      BY <1>6, <3>1 DEF At
    <3> QED
      BY <1>10, <3>2, <3>3
  <2> QED
    BY <2>1, <2>2, <2>3
<1>12. r.tail = At(t, Len(t))
  <2>1. CASE at = k /\ k = 1
    BY <1>5, <1>6, <1>9, <2>1 DEF At
  <2>2. CASE at = k /\ k # 1
    <3>1. k - 1 \in 1..(k - 1) /\ k - 1 < at
      BY <1>1, <2>2
    <3> QED
      BY <1>5, <1>6, <1>9, <2>2, <3>1 DEF At
  <2>3. CASE at # k
    <3>1. k - 1 \in 1..(k - 1) /\ ~(k - 1 < at) /\ (k - 1) + 1 = k /\ at < k
      BY <1>0, <2>3
    <3> QED
      BY <1>5, <1>6, <1>9, <1>10, <3>1, NilAssumption DEF At
  <2> QED
    BY <2>1, <2>2, <2>3
<1> HIDE DEF a, b
<1>13. ASSUME NEW i \in 1..Len(t)
       PROVE  r.next[t[i]] = At(t, i + 1)
  <2>1. CASE i < at - 1
    <3>1. i \in 1..k /\ i + 1 \in 1..(k - 1) /\ i < at /\ i + 1 < at /\ i # at - 1
          /\ at - 1 \in 1..k /\ at > 1
      BY <1>1, <1>6, <2>1
    <3>2. t[i] = s[i] /\ t[i + 1] = s[i + 1] /\ s[i] # a
      BY <1>6, <1>8, <1>9, <3>1
    <3>3. l.next[s[i]] = s[i + 1]
      <4>1. l.next[s[i]] = At(s, i + 1) /\ i + 1 \in 1..k
        BY <1>1, <3>1 DEF IsList
      <4> QED
        BY <4>1 DEF At
    <3> QED
      BY <1>1, <1>5, <1>6, <3>1, <3>2, <3>3 DEF At
  <2>2. CASE i = at - 1
    <3>1. i \in 1..k /\ i < at /\ at > 1 /\ i \in 1..(k - 1)
      BY <1>1, <1>6, <2>2
    <3>2. t[i] = s[at - 1] /\ t[i] = a
      BY <1>6, <1>9, <2>2, <3>1
    <3>3. r.next[t[i]] = b
      BY <1>5, <1>9, <3>1, <3>2
    <3>4. At(t, i + 1) = b
      <4>1. CASE at = k
        BY <1>1, <1>6, <1>9, <2>2, <4>1 DEF At
      <4>2. CASE at # k
        <5>1. at \in 1..(k - 1) /\ ~(at < at) /\ i + 1 = at /\ at < k
          BY <1>0, <2>2, <4>2
        <5> QED
          BY <1>6, <1>9, <5>1 DEF At
      <4> QED
        BY <4>1, <4>2
    <3> QED
      BY <3>3, <3>4
  <2>3. CASE i >= at
    <3>1. i \in 1..(k - 1) /\ i + 1 \in 1..k /\ ~(i < at) /\ ~(i + 1 < at)
      BY <1>1, <1>6, <2>3
    <3>2. t[i] = s[i + 1]
      BY <1>6, <3>1
    <3>3. s[i + 1] # a
      <4>1. CASE at = 1
        BY <1>1, <1>9, <3>1, <4>1, NilAssumption
      <4>2. CASE at # 1
        <5>1. at - 1 \in 1..k /\ at > 1 /\ i + 1 # at - 1
          BY <1>1, <2>3, <4>2
        <5> QED
          BY <1>8, <1>9, <3>1, <5>1
      <4> QED
        BY <4>1, <4>2
    <3>4. l.next[s[i + 1]] = At(s, (i + 1) + 1)
      BY <3>1 DEF IsList
    <3>5. At(s, (i + 1) + 1) = At(t, i + 1)
      <4>1. CASE i + 1 \in 1..(k - 1)
        BY <1>1, <1>6, <3>1, <4>1 DEF At
      <4>2. CASE i + 1 \notin 1..(k - 1)
        BY <1>1, <1>6, <3>1, <4>2 DEF At
      <4> QED
        BY <4>1, <4>2
    <3> QED
      BY <1>1, <1>5, <3>1, <3>2, <3>3, <3>4, <3>5
  <2>4. i < at - 1 \/ i = at - 1 \/ i >= at
    BY <1>6
  <2> QED
    BY <2>1, <2>2, <2>3, <2>4
<1>14. ASSUME NEW i \in 1..Len(t)
       PROVE  r.prev[t[i]] = At(t, i - 1)
  <2>1. CASE i < at
    <3>1. i \in 1..k /\ i \in 1..(k - 1)
      BY <1>1, <1>6
    <3>2. t[i] = s[i]
      BY <1>6, <2>1, <3>1
    <3>3. s[i] # b
      <4>1. CASE at = k
        BY <1>1, <1>9, <3>1, <4>1, NilAssumption
      <4>2. CASE at # k
        <5>1. at + 1 \in 1..k /\ at < k /\ i # at + 1
          BY <1>0, <2>1, <4>2
        <5> QED
          BY <1>8, <1>9, <3>1, <5>1
      <4> QED
        BY <4>1, <4>2
    <3>4. l.prev[s[i]] = At(s, i - 1)
      BY <3>1 DEF IsList
    <3>5. At(s, i - 1) = At(t, i - 1)
      <4>1. CASE i = 1
        BY <1>6, <4>1 DEF At
      <4>2. CASE i # 1
        <5>1. i - 1 \in 1..k /\ i - 1 \in 1..(k - 1) /\ i - 1 < at
          BY <2>1, <3>1, <4>2
        <5> QED
          BY <1>6, <5>1 DEF At
      <4> QED
        BY <4>1, <4>2
    <3> QED
      BY <1>1, <1>5, <3>1, <3>2, <3>3, <3>4, <3>5
  <2>2. CASE i = at
    <3>1. at \in 1..(k - 1) /\ ~(at < at) /\ at < k
      BY <1>1, <1>6, <2>2
    <3>2. t[i] = b /\ b \in Node
      BY <1>6, <1>9, <2>2, <3>1
    <3>3. r.prev[t[i]] = a
      BY <1>5, <3>2
    <3>4. At(t, i - 1) = a
      <4>1. CASE at = 1
        BY <1>6, <1>9, <2>2, <4>1 DEF At
      <4>2. CASE at # 1
        <5>1. at - 1 \in 1..(k - 1) /\ at - 1 < at /\ at > 1
          BY <3>1, <4>2
        <5> QED
          BY <1>6, <1>9, <2>2, <5>1 DEF At
      <4> QED
        BY <4>1, <4>2
    <3> QED
      BY <3>3, <3>4
  <2>3. CASE i > at
    <3>1. /\ i \in 1..(k - 1) /\ i + 1 \in 1..k /\ ~(i < at) /\ i - 1 \in 1..(k - 1)
          /\ ~(i - 1 < at) /\ (i - 1) + 1 = i /\ (i + 1) - 1 = i /\ at < k /\ at + 1 \in 1..k
          /\ i + 1 # at + 1 /\ i \in 1..k
      BY <1>1, <1>2, <1>6, <2>3
    <3>2. t[i] = s[i + 1] /\ t[i - 1] = s[i] /\ s[i + 1] # b
      BY <1>6, <1>8, <1>9, <3>1
    <3>3. l.prev[s[i + 1]] = s[i]
      <4>1. l.prev[s[i + 1]] = At(s, (i + 1) - 1)
        BY <3>1 DEF IsList
      <4> QED
        BY <3>1, <4>1 DEF At
    <3> QED
      BY <1>1, <1>5, <1>6, <3>1, <3>2, <3>3 DEF At
  <2>4. i < at \/ i = at \/ i > at
    BY <1>6
  <2> QED
    BY <2>1, <2>2, <2>3, <2>4
<1>15. IsList(r, t)
  BY <1>5, <1>6, <1>7, <1>11, <1>12, <1>13, <1>14 DEF IsList
<1> QED
  BY <1>15 DEF r, t

\* The list r is l with n between a and b.
IsLinked(r, l, a, n, b) ==
  /\ r \in Lists
  /\ r.head = (IF a = Nil THEN n ELSE l.head)
  /\ r.tail = (IF b = Nil THEN n ELSE l.tail)
  /\ \A m \in Node : r.next[m] = IF m = a THEN n ELSE IF m = n THEN b ELSE l.next[m]
  /\ \A m \in Node : r.prev[m] = IF m = b THEN n ELSE IF m = n THEN a ELSE l.prev[m]

LEMMA LinkedBetween ==
  ASSUME NEW l \in Lists, NEW a \in Node \cup {Nil}, NEW b \in Node \cup {Nil},
         NEW n \in Node
  PROVE  IsLinked(Linked(l, a, n, b), l, a, n, b)
<1> DEFINE own == [l EXCEPT !.prev[n] = a, !.next[n] = b]
           k == SetNext(own, a, n)
           r == SetPrev(k, b, n)
<1>0. /\ own \in Lists /\ own.head = l.head /\ own.tail = l.tail
      /\ \A m \in Node : own.next[m] = IF m = n THEN b ELSE l.next[m]
      /\ \A m \in Node : own.prev[m] = IF m = n THEN a ELSE l.prev[m]
  BY DEF Lists
<1> HIDE DEF own
<1>1. /\ k \in Lists /\ k.tail = own.tail /\ k.prev = own.prev
      /\ k.head = (IF a = Nil THEN n ELSE own.head)
      /\ \A m \in Node : k.next[m] = IF m = a THEN n ELSE own.next[m]
  <2>1. CASE a = Nil
    BY <1>0, <2>1, NilAssumption DEF SetNext, Lists
  <2>2. CASE a # Nil
    BY <1>0, <2>2 DEF SetNext, Lists
  <2> QED
    BY <2>1, <2>2
<1> HIDE DEF k
<1>2. /\ r \in Lists /\ r.head = k.head /\ r.next = k.next
      /\ r.tail = (IF b = Nil THEN n ELSE k.tail)
      /\ \A m \in Node : r.prev[m] = IF m = b THEN n ELSE k.prev[m]
  <2>1. CASE b = Nil
    BY <1>1, <2>1, NilAssumption DEF SetPrev, Lists
  <2>2. CASE b # Nil
    BY <1>1, <2>2 DEF SetPrev, Lists
  <2> QED
    BY <2>1, <2>2
<1> HIDE DEF r
<1>3. IsLinked(r, l, a, n, b)
  BY <1>0, <1>1, <1>2 DEF IsLinked
<1> QED
  BY <1>3 DEF Linked, own, k, r

\* Inserting n at place p.
LEMMA LinkedAt ==
  ASSUME NEW l, NEW s, IsList(l, s), NEW n \in Node \ ToSet(s), NEW p \in 1..(Len(s) + 1)
  PROVE  IsList(Linked(l, At(s, p - 1), n, At(s, p)), InsertAt(s, p, n))
<1>1. /\ l \in Lists /\ s \in Seq(Node) /\ IsInjective(s) /\ Len(s) \in Nat
      /\ DOMAIN s = 1..Len(s) /\ \A i \in 1..Len(s) : s[i] \in Node
  BY LenProperties DEF IsList
<1> DEFINE a == At(s, p - 1)
           b == At(s, p)
           t == InsertAt(s, p, n)
           r == Linked(l, a, n, b)
           k == Len(s)
<1>2. a \in Node \cup {Nil} /\ b \in Node \cup {Nil}
  BY <1>1 DEF At
<1>3. IsLinked(r, l, a, n, b)
  <2>1. l \in Lists /\ n \in Node
    BY <1>1
  <2> HIDE DEF a, b
  <2> QED
    BY <1>2, <2>1, LinkedBetween
<1>4. /\ t \in Seq(Node) /\ Len(t) = k + 1
      /\ \A i \in 1..(k + 1) : t[i] = IF i < p THEN s[i] ELSE IF i = p THEN n ELSE s[i - 1]
  <2>1. n \in Node /\ s \in Seq(Node) /\ p \in 1..(Len(s) + 1)
    BY <1>1
  <2>2. /\ t \in Seq(Node) /\ Len(t) = Len(s) + 1
        /\ \A i \in 1..(Len(s) + 1) :
             t[i] = IF i < p THEN s[i] ELSE IF i = p THEN n ELSE s[i - 1]
    BY <2>1, InsertedAt
  <2> QED
    BY <2>2
<1>5. IsInjective(t)
  BY <1>1, Inserted
<1> HIDE DEF t, r
<1>6. k \in Nat /\ p \in 1..(k + 1)
  BY <1>1
<1>7. \A i, j \in 1..k : s[i] = s[j] => i = j
  BY <1>1 DEF IsInjective
<1>8. \A i \in 1..k : s[i] # n /\ s[i] # Nil /\ s[i] \in Node
  BY <1>1, NilAssumption DEF ToSet
<1>9. /\ l.head = At(s, 1) /\ l.tail = At(s, k)
      /\ \A i \in 1..k : l.next[s[i]] = At(s, i + 1) /\ l.prev[s[i]] = At(s, i - 1)
  BY DEF IsList
<1>10. n # Nil /\ n # a /\ n # b /\ n \in Node
  BY <1>8, NilAssumption DEF At
<1>11. At(s, 0) = Nil /\ At(s, k + 1) = Nil
  <2>1. 0 \notin 1..k /\ k + 1 \notin 1..k
    BY <1>6
  <2> HIDE DEF k
  <2> QED
    BY <2>1 DEF At, k
<1>12. \A i \in 1..k : At(s, i) = s[i]
  BY DEF At
<1> HIDE DEF k
<1>13. \A i \in 0..(k + 2) : At(t, i) = IF i < p THEN At(s, i) ELSE IF i = p THEN n
                                        ELSE At(s, i - 1)
  <2> SUFFICES ASSUME NEW i \in 0..(k + 2)
               PROVE  At(t, i) = IF i < p THEN At(s, i) ELSE IF i = p THEN n ELSE At(s, i - 1)
    OBVIOUS
  <2>1. CASE i = 0
    <3>1. i \notin 1..(k + 1) /\ i < p
      BY <1>6, <2>1
    <3> QED
      BY <1>4, <1>11, <2>1, <3>1 DEF At
  <2>2. CASE i = k + 2
    <3>1. i \notin 1..(k + 1) /\ ~(i < p) /\ i # p /\ i - 1 = k + 1
      BY <1>6, <2>2
    <3> QED
      BY <1>4, <1>11, <2>2, <3>1 DEF At
  <2>3. CASE i \in 1..(k + 1)
    <3>1. At(t, i) = t[i]
      BY <1>4, <2>3 DEF At
    <3>2. CASE i < p
      <4>1. i \in 1..k
        BY <1>6, <2>3, <3>2
      <4> QED
        BY <1>4, <1>12, <2>3, <3>1, <3>2, <4>1
    <3>3. CASE i = p
      <4>1. ~(i < p)
        BY <1>6, <3>3
      <4> QED
        BY <1>4, <2>3, <3>1, <3>3, <4>1
    <3>4. CASE i > p
      <4>1. i - 1 \in 1..k /\ ~(i < p) /\ i # p
        BY <1>6, <2>3, <3>4
      <4> QED
        BY <1>4, <1>12, <2>3, <3>1, <4>1
    <3>5. i < p \/ i = p \/ i > p
      BY <1>6, <2>3
    <3> QED
      BY <3>2, <3>3, <3>4, <3>5
  <2>4. i = 0 \/ i = k + 2 \/ i \in 1..(k + 1)
    BY <1>6
  <2> QED
    BY <2>1, <2>2, <2>3, <2>4
<1>14. \A i \in 1..(k + 1) : t[i] = At(t, i)
  BY <1>4 DEF At
<1>15. /\ p = 1 => a = Nil
       /\ p > 1 => a = s[p - 1] /\ p - 1 \in 1..k
       /\ p = k + 1 => b = Nil
       /\ p < k + 1 => b = s[p] /\ p \in 1..k
  <2>1. p = 1 => a = Nil
    BY <1>11
  <2>2. p > 1 => p - 1 \in 1..k
    BY <1>6
  <2>3. p > 1 => a = s[p - 1]
    BY <1>12, <2>2
  <2>4. p = k + 1 => b = Nil
    BY <1>11
  <2>5. p < k + 1 => p \in 1..k
    BY <1>6
  <2>6. p < k + 1 => b = s[p]
    BY <1>12, <2>5
  <2> QED
    BY <2>1, <2>2, <2>3, <2>4, <2>5, <2>6
<1>16. a = At(s, p - 1) /\ b = At(s, p)
  OBVIOUS
<1> HIDE DEF a, b
<1>17. (p = 1 \/ p > 1) /\ (p = k + 1 \/ p < k + 1)
  BY <1>6
<1>18. r.head = At(t, 1)
  <2>1. CASE p = 1
    <3>1. At(t, 1) = n
      <4>1. 1 \in 0..(k + 2) /\ ~(1 < 1)
        BY <1>6
      <4> QED
        BY <1>13, <2>1, <4>1
    <3> QED
      BY <1>3, <1>15, <2>1, <3>1 DEF IsLinked
  <2>2. CASE p > 1
    <3>1. At(t, 1) = At(s, 1)
      <4>1. 1 \in 0..(k + 2)
        BY <1>6
      <4> QED
        BY <1>13, <2>2, <4>1
    <3> QED
      BY <1>3, <1>8, <1>9, <1>15, <2>2, <3>1 DEF IsLinked
  <2> QED
    BY <1>17, <2>1, <2>2
<1>19. r.tail = At(t, Len(t))
  <2>0. k + 1 \in 0..(k + 2) /\ (k + 1) - 1 = k
    BY <1>6
  <2>1. CASE p = k + 1
    <3>1. At(t, k + 1) = n
      <4>1. ~(p < p)
        BY <1>6
      <4> QED
        BY <1>13, <2>0, <2>1, <4>1
    <3> QED
      BY <1>3, <1>4, <1>15, <2>1, <3>1 DEF IsLinked
  <2>2. CASE p < k + 1
    <3>1. At(t, k + 1) = At(s, k)
      <4>1. ~(k + 1 < p) /\ k + 1 # p
        BY <1>6, <2>2
      <4> QED
        BY <1>13, <2>0, <4>1
    <3> QED
      BY <1>3, <1>4, <1>8, <1>9, <1>15, <2>2, <3>1 DEF IsLinked
  <2> QED
    BY <1>17, <2>1, <2>2
<1>20. ASSUME NEW i \in 1..Len(t)
       PROVE  r.next[t[i]] = At(t, i + 1) /\ r.prev[t[i]] = At(t, i - 1)
  <2>0. i \in 1..(k + 1) /\ i \in 0..(k + 2) /\ i + 1 \in 0..(k + 2) /\ i - 1 \in 0..(k + 2)
        /\ (i + 1) - 1 = i /\ t[i] = At(t, i)
    BY <1>4, <1>6, <1>14
  <2>1. CASE i < p
    <3>1. i \in 1..k /\ t[i] = s[i] /\ i - 1 < p
      <4>1. i \in 1..k /\ i - 1 < p
        BY <1>6, <2>0, <2>1
      <4> QED
        BY <1>12, <1>13, <2>0, <2>1, <4>1
    <3>2. r.next[s[i]] = At(t, i + 1)
      <4>1. CASE i + 1 < p
        <5>1. p - 1 \in 1..k /\ i # p - 1 /\ p > 1
          BY <1>6, <3>1, <4>1
        <5>2. s[i] # a
          BY <1>7, <1>15, <3>1, <5>1
        <5>3. At(t, i + 1) = At(s, i + 1)
          BY <1>13, <2>0, <4>1
        <5> QED
          BY <1>3, <1>8, <1>9, <3>1, <5>2, <5>3 DEF IsLinked
      <4>2. CASE i + 1 = p
        <5>1. p - 1 = i /\ p > 1 /\ ~(p < p)
          BY <1>6, <3>1, <4>2
        <5>2. s[i] = a
          BY <1>15, <5>1
        <5>3. At(t, i + 1) = n
          BY <1>13, <2>0, <4>2, <5>1
        <5> QED
          BY <1>3, <1>8, <3>1, <5>2, <5>3 DEF IsLinked
      <4>3. i + 1 < p \/ i + 1 = p
        BY <1>6, <2>1, <3>1
      <4> QED
        BY <4>1, <4>2, <4>3
    <3>3. r.prev[s[i]] = At(t, i - 1)
      <4>1. s[i] # b
        <5>1. CASE p = k + 1
          BY <1>8, <1>15, <3>1, <5>1
        <5>2. CASE p < k + 1
          <6>1. i # p
            BY <1>6, <2>1, <3>1
          <6> QED
            BY <1>7, <1>15, <3>1, <5>2, <6>1
        <5> QED
          BY <1>17, <5>1, <5>2
      <4>2. At(t, i - 1) = At(s, i - 1)
        BY <1>13, <2>0, <3>1
      <4> QED
        BY <1>3, <1>8, <1>9, <3>1, <4>1, <4>2 DEF IsLinked
    <3> QED
      BY <3>1, <3>2, <3>3
  <2>2. CASE i = p
    <3>1. t[i] = n /\ ~(i + 1 < p) /\ i + 1 # p /\ i - 1 < p
      <4>1. ~(i < p) /\ ~(i + 1 < p) /\ i + 1 # p /\ i - 1 < p
        BY <1>6, <2>2
      <4> QED
        BY <1>13, <2>0, <2>2, <4>1
    <3>2. At(t, i + 1) = At(s, i)
      BY <1>13, <2>0, <3>1
    <3>3. At(t, i - 1) = At(s, i - 1)
      BY <1>13, <2>0, <3>1
    <3> QED
      BY <1>3, <1>10, <1>16, <2>2, <3>1, <3>2, <3>3 DEF IsLinked
  <2>3. CASE i > p
    <3> DEFINE j == i - 1
    <3>1. /\ j \in 1..k /\ ~(i < p) /\ i # p /\ ~(i + 1 < p) /\ i + 1 # p /\ j + 1 = i
          /\ (p < j \/ p = j)
      BY <1>6, <2>0, <2>3
    <3> HIDE DEF j
    <3>2. At(t, i) = At(s, j) /\ At(t, i + 1) = At(s, i)
      BY <1>13, <2>0, <3>1 DEF j
    <3>3. t[i] = s[j]
      BY <1>12, <2>0, <3>1, <3>2
    <3>4. s[j] # a
      <4>1. CASE p = 1
        BY <1>8, <1>15, <3>1, <4>1
      <4>2. CASE p > 1
        <5>1. p - 1 \in 1..k /\ p - 1 < j /\ j # p - 1
          BY <1>6, <3>1, <4>2
        <5> QED
          BY <1>7, <1>15, <3>1, <4>2, <5>1
      <4> QED
        BY <1>17, <4>1, <4>2
    <3>5. r.next[s[j]] = At(t, i + 1)
      BY <1>3, <1>8, <1>9, <3>1, <3>2, <3>4 DEF IsLinked
    <3>6. r.prev[s[j]] = At(t, i - 1)
      <4>1. CASE p = j
        <5>1. s[j] = b
          <6>1. p < k + 1
            BY <1>6, <3>1, <4>1
          <6> QED
            BY <1>15, <4>1, <6>1
        <5>2. At(t, i - 1) = n
          <6>1. i - 1 = p /\ ~(p < p)
            BY <1>6, <2>0, <4>1 DEF j
          <6> QED
            BY <1>13, <2>0, <6>1
        <5> QED
          BY <1>3, <1>8, <3>1, <5>1, <5>2 DEF IsLinked
      <4>2. CASE p < j
        <5>1. p \in 1..k /\ p # j /\ p < k + 1
          BY <1>6, <3>1, <4>2
        <5>2. s[j] # b
          BY <1>7, <1>15, <3>1, <5>1
        <5>3. At(t, i - 1) = At(s, j - 1)
          <6>1. ~(i - 1 < p) /\ i - 1 # p /\ (i - 1) - 1 = j - 1
            BY <1>6, <2>0, <4>2 DEF j
          <6> QED
            BY <1>13, <2>0, <6>1
        <5> QED
          BY <1>3, <1>8, <1>9, <3>1, <5>2, <5>3 DEF IsLinked
      <4> QED
        BY <3>1, <4>1, <4>2
    <3> QED
      BY <3>3, <3>5, <3>6
  <2>4. i < p \/ i = p \/ i > p
    BY <1>6, <2>0
  <2> QED
    BY <2>1, <2>2, <2>3, <2>4
<1>21. IsList(r, t)
  BY <1>3, <1>4, <1>5, <1>18, <1>19, <1>20 DEF IsList, IsLinked
<1> QED
  BY <1>21 DEF r, t, a, b

\* push_back
LEMMA PushedBackList ==
  ASSUME NEW l, NEW s, IsList(l, s), NEW n \in Node \ ToSet(s)
  PROVE  IsList(PushedBack(l, n), Append(s, n))
<1>1. s \in Seq(Node) /\ Len(s) \in Nat /\ n \in Node /\ l.tail = At(s, Len(s))
  BY LenProperties DEF IsList
<1>2. Len(s) + 1 \in 1..(Len(s) + 1) /\ (Len(s) + 1) - 1 = Len(s)
  BY <1>1
<1>3. At(s, Len(s) + 1) = Nil
  BY <1>1 DEF At
<1>4. IsList(Linked(l, At(s, (Len(s) + 1) - 1), n, At(s, Len(s) + 1)),
             InsertAt(s, Len(s) + 1, n))
  BY <1>2, LinkedAt
<1>5. InsertAt(s, Len(s) + 1, n) = Append(s, n)
  BY <1>1, AppendedIsInserted
<1> QED
  BY <1>1, <1>2, <1>3, <1>4, <1>5 DEF PushedBack

\* push_back and unlink
LEMMA RefusedList ==
  ASSUME NEW l, NEW s, IsList(l, s), NEW n \in Node \ ToSet(s)
  PROVE  IsList(Unlinked(PushedBack(l, n), n), s)
<1> DEFINE u == Append(s, n)
           k == PushedBack(l, n)
<1>1. s \in Seq(Node) /\ IsInjective(s)
  BY DEF IsList
<1>2. IsList(k, u)
  BY PushedBackList
<1>3. n \in ToSet(u)
  BY <1>1, Appended
<1>4. RemoveFirst(u, n) = s
  BY <1>1, AppendedAndRemoved
<1> HIDE DEF u, k
<1>5. IsList(Unlinked(k, n), RemoveFirst(u, n))
  BY <1>2, <1>3, UnlinkedList
<1> QED
  BY <1>4, <1>5 DEF k

\* What relocations put in again is a list without n.
LEMMA Rest ==
  ASSUME NEW l, NEW s, IsList(l, s), NEW n \in ToSet(s)
  PROVE  LET rest == RemoveFirst(s, n)
         IN  /\ IsList(Unlinked(l, n), rest) /\ ToSet(rest) = ToSet(s) \ {n}
             /\ n \in Node \ ToSet(rest) /\ rest \in Seq(Node) /\ IsInjective(rest)
<1>1. s \in Seq(Node) /\ IsInjective(s) /\ \A i \in DOMAIN s : s[i] \in Node
  BY LenProperties DEF IsList
<1> DEFINE rest == RemoveFirst(s, n)
<1>2. rest \in Seq(Node) /\ IsInjective(rest) /\ ToSet(rest) = ToSet(s) \ {n}
  BY <1>1, RemovedOnce
<1>3. IsList(Unlinked(l, n), rest)
  BY UnlinkedList
<1> HIDE DEF rest
<1>4. n \in Node \ ToSet(rest)
  BY <1>1, <1>2 DEF ToSet
<1> QED
  BY <1>2, <1>3, <1>4 DEF rest

\* move_to_front
LEMMA MovedToFrontList ==
  ASSUME NEW l, NEW s, IsList(l, s), NEW n \in ToSet(s)
  PROVE  IsList(MovedToFront(l, n), InsertAt(RemoveFirst(s, n), 1, n))
<1> DEFINE rest == RemoveFirst(s, n)
           out == Unlinked(l, n)
<1>1. IsList(out, rest) /\ n \in Node \ ToSet(rest)
  BY Rest
<1> HIDE DEF rest, out
<1>2. Len(rest) \in Nat /\ out.head = At(rest, 1)
  BY <1>1, LenProperties DEF IsList
<1>3. 1 \in 1..(Len(rest) + 1) /\ At(rest, 1 - 1) = Nil
  BY <1>2 DEF At
<1>4. IsList(Linked(out, At(rest, 1 - 1), n, At(rest, 1)), InsertAt(rest, 1, n))
  BY <1>1, <1>3, LinkedAt
<1> QED
  BY <1>2, <1>3, <1>4 DEF MovedToFront, rest, out

\* move_to_back, and relocate to end()
LEMMA MovedToBackList ==
  ASSUME NEW l, NEW s, IsList(l, s), NEW n \in ToSet(s)
  PROVE  n \in Node /\ IsList(Relocated(l, Nil, n), Append(RemoveFirst(s, n), n))
<1> DEFINE rest == RemoveFirst(s, n)
           out == Unlinked(l, n)
<1>1. IsList(out, rest) /\ n \in Node \ ToSet(rest)
  BY Rest
<1> HIDE DEF rest, out
<1>2. IsList(PushedBack(out, n), Append(rest, n))
  BY <1>1, PushedBackList
<1>3. n # Nil
  BY <1>1, NilAssumption
<1> QED
  BY <1>1, <1>2, <1>3 DEF Relocated, rest, out

\* relocate, in front of the node at place q of the others
LEMMA RelocatedList ==
  ASSUME NEW l, NEW s, IsList(l, s), NEW n \in ToSet(s), NEW b \in ToSet(s), n # b
  PROVE  LET rest == RemoveFirst(s, n)
             q == SelectInSeq(rest, LAMBDA m : m = b)
         IN  /\ q \in 1..Len(rest)
             /\ IsList(Relocated(l, b, n), InsertAt(rest, q, n))
<1> DEFINE rest == RemoveFirst(s, n)
           out == Unlinked(l, n)
<1>1. /\ IsList(out, rest) /\ n \in Node \ ToSet(rest) /\ ToSet(rest) = ToSet(s) \ {n}
      /\ rest \in Seq(Node) /\ IsInjective(rest)
  BY Rest
<1> HIDE DEF rest, out
<1>2. Len(rest) \in Nat /\ DOMAIN rest = 1..Len(rest) /\ \A i \in 1..Len(rest) : rest[i] \in Node
  BY <1>1, LenProperties
<1>3. PICK q \in 1..Len(rest) : b = rest[q]
  BY <1>1, <1>2 DEF ToSet
<1>4. SelectInSeq(rest, LAMBDA m : m = b) = q
  <2> DEFINE I == {j \in 1..Len(rest) : rest[j] = b}
  <2>1. I # {} /\ Min(I) = q
    BY <1>1, <1>3, OnlyPlace
  <2> QED
    BY <2>1 DEF SelectInSeq
<1>5. q \in 1..(Len(rest) + 1) /\ At(rest, q) = b /\ b # Nil
  BY <1>2, <1>3, NilAssumption DEF At
<1>6. out.prev[b] = At(rest, q - 1)
  BY <1>1, <1>3 DEF IsList
<1>7. IsList(Linked(out, At(rest, q - 1), n, At(rest, q)), InsertAt(rest, q, n))
  BY <1>1, <1>5, LinkedAt
<1>8. Relocated(l, b, n) = Linked(out, At(rest, q - 1), n, At(rest, q))
  BY <1>5, <1>6 DEF Relocated, out
<1> QED
  BY <1>4, <1>7, <1>8 DEF rest

\* reverse
LEMMA ReversedList ==
  ASSUME NEW l, NEW s, IsList(l, s)
  PROVE  IsList(Reversed(l), Reverse(s))
<1>1. /\ s \in Seq(Node) /\ IsInjective(s) /\ Len(s) \in Nat /\ l \in Lists
      /\ DOMAIN s = 1..Len(s) /\ \A i \in 1..Len(s) : s[i] \in Node
  BY LenProperties DEF IsList
<1>2. l.head = At(s, 1) /\ l.tail = At(s, Len(s))
      /\ \A i \in 1..Len(s) : l.next[s[i]] = At(s, i + 1) /\ l.prev[s[i]] = At(s, i - 1)
  BY DEF IsList
<1> DEFINE t == Reverse(s)
           r == Reversed(l)
<1>3. /\ t \in Seq(Node) /\ Len(t) = Len(s) /\ IsInjective(t)
      /\ \A i \in 1..Len(s) : t[i] = s[Len(s) - i + 1]
  BY <1>1, Reversal
<1>4. From(l.next, l.head) = s
  BY ListIsRead
<1>5. r = [ head |-> l.tail, tail |-> l.head,
            prev |-> [m \in Node |-> IF m \in ToSet(s) THEN l.next[m] ELSE l.prev[m]],
            next |-> [m \in Node |-> IF m \in ToSet(s) THEN l.prev[m] ELSE l.next[m]] ]
  BY <1>4 DEF Reversed
<1>6. /\ r \in Lists /\ r.head = l.tail /\ r.tail = l.head
      /\ \A m \in Node : m \in ToSet(s) => r.next[m] = l.prev[m] /\ r.prev[m] = l.next[m]
  <2> HIDE DEF r
  <2> QED
    BY <1>1, <1>5 DEF Lists
<1> HIDE DEF t, r
<1>7. \A i \in 0..(Len(s) + 1) : At(t, i) = At(s, Len(s) - i + 1)
  <2> SUFFICES ASSUME NEW i \in 0..(Len(s) + 1)
               PROVE  At(t, i) = At(s, Len(s) - i + 1)
    OBVIOUS
  <2>1. i \in 1..Len(s) <=> Len(s) - i + 1 \in 1..Len(s)
    BY <1>1
  <2> QED
    BY <1>3, <2>1 DEF At
<1>8. r.head = At(t, 1) /\ r.tail = At(t, Len(t))
  <2>1. /\ 1 \in 0..(Len(s) + 1) /\ Len(s) \in 0..(Len(s) + 1)
        /\ Len(s) - 1 + 1 = Len(s) /\ Len(s) - Len(s) + 1 = 1
    BY <1>1
  <2>2. At(t, 1) = At(s, Len(s)) /\ At(t, Len(s)) = At(s, 1)
    BY <1>7, <2>1
  <2> QED
    BY <1>2, <1>3, <1>6, <2>2
<1>9. ASSUME NEW i \in 1..Len(t)
      PROVE  r.next[t[i]] = At(t, i + 1) /\ r.prev[t[i]] = At(t, i - 1)
  <2> DEFINE j == Len(s) - i + 1
  <2>1. /\ j \in 1..Len(s) /\ i + 1 \in 0..(Len(s) + 1) /\ i - 1 \in 0..(Len(s) + 1)
        /\ Len(s) - (i + 1) + 1 = j - 1 /\ Len(s) - (i - 1) + 1 = j + 1
    <3>1. Len(s) \in Nat /\ i \in 1..Len(s)
      BY <1>1, <1>3
    <3> QED
      BY <3>1
  <2>2. t[i] = s[j]
    BY <1>3
  <2>3. At(t, i + 1) = At(s, j - 1) /\ At(t, i - 1) = At(s, j + 1)
    BY <1>7, <2>1
  <2> HIDE DEF j
  <2>4. s[j] \in Node /\ s[j] \in ToSet(s)
    BY <1>1, <2>1 DEF ToSet
  <2> QED
    BY <1>2, <1>6, <2>1, <2>2, <2>3, <2>4
<1>10. IsList(r, t)
  BY <1>3, <1>6, <1>8, <1>9 DEF IsList
<1> QED
  BY <1>10 DEF r, t

\* clear, and the list that no node is in
LEMMA EmptyList ==
  ASSUME NEW l \in Lists, l.head = Nil, l.tail = Nil
  PROVE  IsList(l, <<>>)
<1>1. <<>> \in Seq(Node) /\ Len(<<>>) = 0 /\ IsInjective(<<>>)
  BY DEF IsInjective
<1> QED
  BY <1>1 DEF IsList, At

-----------------------------------------------------------------------------
(* Walking a list that changes.                                            *)

\* An iterator on c is at place p of s, or behind its last place: it has passed the
\* elements se, and those in front of it that it has not passed are in la.
WalkAt(s, c, se, la, p) ==
  /\ c = At(s, p)
  /\ \A i \in 1..(p - 1) : s[i] \in se \cup la
  /\ \A x \in se : \E i \in 1..(p - 1) : s[i] = x

IsWalk(s, c, se, la) == \E p \in 1..(Len(s) + 1) : WalkAt(s, c, se, la, p)

\* A node that comes in, wherever it is, is one the walk may miss.
LEMMA WalkInserted ==
  ASSUME NEW s \in Seq(Node), NEW n \in Node \ ToSet(s), NEW q \in 1..(Len(s) + 1),
         NEW c, NEW se, NEW la, IsWalk(s, c, se, la)
  PROVE  IsWalk(InsertAt(s, q, n), c, se \ {n}, la \cup {n})
<1> DEFINE t == InsertAt(s, q, n)
           k == Len(s)
<1>1. k \in Nat /\ DOMAIN s = 1..k /\ \A i \in 1..k : s[i] \in Node /\ s[i] # n
  BY LenProperties DEF ToSet
<1>2. Len(t) = Len(s) + 1 /\ \A i \in 1..(Len(s) + 1) :
        t[i] = IF i < q THEN s[i] ELSE IF i = q THEN n ELSE s[i - 1]
  <2>1. n \in Node
    OBVIOUS
  <2> QED
    BY <2>1, InsertedAt
<1>3. PICK p \in 1..(k + 1) : WalkAt(s, c, se, la, p)
  BY DEF IsWalk
<1>4. c = At(s, p) /\ (\A i \in 1..(p - 1) : s[i] \in se \cup la)
      /\ (\A x \in se : \E i \in 1..(p - 1) : s[i] = x)
  BY <1>3 DEF WalkAt
<1>5. p \in 1..(k + 1) /\ q \in 1..(k + 1) /\ Len(t) = k + 1 /\ \A i \in 1..(k + 1) :
        t[i] = IF i < q THEN s[i] ELSE IF i = q THEN n ELSE s[i - 1]
  BY <1>2, <1>3
<1>6. \A i : At(s, i) = IF i \in 1..k THEN s[i] ELSE Nil
  BY DEF At
<1> HIDE DEF t, k
<1>7. \A i : At(t, i) = IF i \in 1..(k + 1) THEN t[i] ELSE Nil
  BY <1>5 DEF At
<1>8. CASE q <= p
  <2>1. At(t, p + 1) = At(s, p)
    <3>1. CASE p \in 1..k
      <4>1. p + 1 \in 1..(k + 1) /\ ~(p + 1 < q) /\ p + 1 # q /\ (p + 1) - 1 = p
        BY <1>1, <1>5, <1>8, <3>1
      <4> QED
        BY <1>5, <1>6, <1>7, <3>1, <4>1
    <3>2. CASE p = k + 1
      <4>1. p \notin 1..k /\ p + 1 \notin 1..(k + 1)
        BY <1>1, <3>2
      <4> QED
        BY <1>6, <1>7, <4>1
    <3>3. p \in 1..k \/ p = k + 1
      BY <1>1, <1>5
    <3> QED
      BY <3>1, <3>2, <3>3
  <2>2. ASSUME NEW i \in 1..p
        PROVE  t[i] \in (se \ {n}) \cup (la \cup {n})
    <3>1. i \in 1..(k + 1) /\ (i < q => i \in 1..(p - 1)) /\ (i > q => i - 1 \in 1..(p - 1))
          /\ (i < q \/ i = q \/ i > q) /\ (i > q => ~(i < q) /\ i # q) /\ (i = q => ~(i < q))
      BY <1>1, <1>5, <1>8
    <3> QED
      BY <1>4, <1>5, <3>1
  <2>3. ASSUME NEW x \in se \ {n}
        PROVE  \E i \in 1..p : t[i] = x
    <3>1. PICK i \in 1..(p - 1) : s[i] = x
      BY <1>4
    <3>2. CASE i < q
      <4>1. i \in 1..p /\ i \in 1..(k + 1)
        BY <1>1, <1>5
      <4> QED
        BY <1>5, <3>1, <3>2, <4>1
    <3>3. CASE i >= q
      <4>1. i + 1 \in 1..p /\ i + 1 \in 1..(k + 1) /\ ~(i + 1 < q) /\ i + 1 # q
            /\ (i + 1) - 1 = i
        BY <1>1, <1>5, <3>3
      <4>2. t[i + 1] = x
        BY <1>5, <3>1, <4>1
      <4> QED
        BY <4>1, <4>2
    <3>4. i < q \/ i >= q
      BY <1>5
    <3> QED
      BY <3>2, <3>3, <3>4
  <2>4. (p + 1) - 1 = p /\ p + 1 \in 1..(Len(t) + 1)
    BY <1>1, <1>5
  <2>5. WalkAt(t, c, se \ {n}, la \cup {n}, p + 1)
    BY <1>4, <2>1, <2>2, <2>3, <2>4 DEF WalkAt
  <2>6. IsWalk(t, c, se \ {n}, la \cup {n})
    BY <2>4, <2>5 DEF IsWalk
  <2> QED
    BY <2>6 DEF t
<1>9. CASE q > p
  <2>1. p \in 1..k /\ p \in 1..(k + 1) /\ p < q /\ p \in 1..(Len(t) + 1)
    BY <1>1, <1>5, <1>9
  <2>2. At(t, p) = At(s, p)
    BY <1>5, <1>6, <1>7, <2>1
  <2>3. \A i \in 1..(p - 1) : t[i] = s[i]
    <3>1. \A i \in 1..(p - 1) : i \in 1..(k + 1) /\ i < q
      BY <1>1, <1>5, <1>9
    <3> QED
      BY <1>5, <3>1
  <2>4. \A i \in 1..(p - 1) : s[i] \in (se \ {n}) \cup (la \cup {n})
    BY <1>4
  <2>5. WalkAt(t, c, se \ {n}, la \cup {n}, p)
    BY <1>4, <2>2, <2>3, <2>4 DEF WalkAt
  <2>6. IsWalk(t, c, se \ {n}, la \cup {n})
    BY <2>1, <2>5 DEF IsWalk
  <2> QED
    BY <2>6 DEF t
<1>10. q <= p \/ q > p
  BY <1>1, <1>5
<1> QED
  BY <1>8, <1>9, <1>10

\* A node that leaves is no longer one that was passed or missed; an iterator on it
\* goes to the next.
LEMMA WalkRemoved ==
  ASSUME NEW s \in Seq(Node), IsInjective(s), NEW r \in 1..Len(s), NEW n, n = s[r],
         NEW c, NEW se, NEW la, IsWalk(s, c, se, la),
         NEW d, d = IF c = n THEN At(s, r + 1) ELSE c
  PROVE  IsWalk(RemoveFirst(s, n), d, se \ {n}, la \ {n})
<1> DEFINE t == RemoveFirst(s, n)
           k == Len(s)
<1>1. k \in Nat /\ DOMAIN s = 1..k /\ \A i \in 1..k : s[i] \in Node
  BY LenProperties
<1>2. Len(t) = Len(s) - 1
      /\ \A i \in 1..(Len(s) - 1) : t[i] = IF i < r THEN s[i] ELSE s[i + 1]
  BY RemovedAt
<1>3. PICK p \in 1..(k + 1) : WalkAt(s, c, se, la, p)
  BY DEF IsWalk
<1>4. c = At(s, p) /\ (\A i \in 1..(p - 1) : s[i] \in se \cup la)
      /\ (\A x \in se : \E i \in 1..(p - 1) : s[i] = x)
  BY <1>3 DEF WalkAt
<1>5. p \in 1..(k + 1) /\ r \in 1..k /\ Len(t) = k - 1
      /\ \A i \in 1..(k - 1) : t[i] = IF i < r THEN s[i] ELSE s[i + 1]
  BY <1>2, <1>3
<1>6. \A i : At(s, i) = IF i \in 1..k THEN s[i] ELSE Nil
  BY DEF At
<1>7. \A i, j \in 1..k : s[i] = s[j] => i = j
  BY <1>1 DEF IsInjective
<1> HIDE DEF t, k
<1>8. \A i : At(t, i) = IF i \in 1..(k - 1) THEN t[i] ELSE Nil
  BY <1>5 DEF At
<1>9. n # Nil /\ n \in Node
  BY <1>1, <1>5, NilAssumption
<1>10. CASE r < p
  <2>1. p - 1 \in 1..(Len(t) + 1) /\ p - 1 >= r /\ r \in 1..(p - 1)
    BY <1>1, <1>5, <1>10
  <2>2. c # n
    <3>1. CASE p \in 1..k
      <4>1. p # r
        BY <1>1, <1>5, <1>10
      <4> QED
        BY <1>4, <1>5, <1>6, <1>7, <3>1, <4>1
    <3>2. CASE p \notin 1..k
      BY <1>4, <1>6, <1>9, <3>2
    <3> QED
      BY <3>1, <3>2
  <2>3. At(t, p - 1) = At(s, p)
    <3>1. CASE p \in 1..k
      <4>1. p - 1 \in 1..(k - 1) /\ ~(p - 1 < r) /\ (p - 1) + 1 = p
        BY <1>1, <1>5, <1>10, <3>1
      <4> QED
        BY <1>5, <1>6, <1>8, <3>1, <4>1
    <3>2. CASE p \notin 1..k
      <4>1. p - 1 \notin 1..(k - 1)
        BY <1>1, <1>5, <3>2
      <4> QED
        BY <1>6, <1>8, <3>2, <4>1
    <3> QED
      BY <3>1, <3>2
  <2>4. ASSUME NEW i \in 1..((p - 1) - 1)
        PROVE  t[i] \in (se \ {n}) \cup (la \ {n})
    <3>1. i \in 1..(k - 1) /\ i \in 1..k /\ i + 1 \in 1..k /\ i \in 1..(p - 1)
          /\ i + 1 \in 1..(p - 1) /\ (i < r => i # r) /\ (~(i < r) => i + 1 # r)
      BY <1>1, <1>5
    <3>2. CASE i < r
      BY <1>4, <1>5, <1>7, <3>1, <3>2
    <3>3. CASE ~(i < r)
      BY <1>4, <1>5, <1>7, <3>1, <3>3
    <3> QED
      BY <3>2, <3>3
  <2>5. ASSUME NEW x \in se \ {n}
        PROVE  \E i \in 1..((p - 1) - 1) : t[i] = x
    <3>1. PICK i \in 1..(p - 1) : s[i] = x
      BY <1>4
    <3>2. i # r
      BY <1>5, <3>1
    <3>3. CASE i < r
      <4>1. i \in 1..((p - 1) - 1) /\ i \in 1..(k - 1)
        BY <1>1, <1>5, <1>10, <3>3
      <4> QED
        BY <1>5, <3>1, <3>3, <4>1
    <3>4. CASE i > r
      <4>1. i - 1 \in 1..((p - 1) - 1) /\ i - 1 \in 1..(k - 1) /\ ~(i - 1 < r)
            /\ (i - 1) + 1 = i
        BY <1>1, <1>5, <1>10, <3>4
      <4>2. t[i - 1] = x
        BY <1>5, <3>1, <4>1
      <4> QED
        BY <4>1, <4>2
    <3>5. i < r \/ i > r
      BY <1>5, <3>2
    <3> QED
      BY <3>3, <3>4, <3>5
  <2>6. WalkAt(t, d, se \ {n}, la \ {n}, p - 1)
    BY <1>4, <2>2, <2>3, <2>4, <2>5 DEF WalkAt
  <2>7. IsWalk(t, d, se \ {n}, la \ {n})
    BY <2>1, <2>6 DEF IsWalk
  <2> QED
    BY <2>7 DEF t
<1>11. CASE p <= r
  <2>1. p \in 1..(Len(t) + 1) /\ p \in 1..k
    BY <1>1, <1>5, <1>11
  <2>2. \A i \in 1..(p - 1) : t[i] = s[i] /\ s[i] # n
    <3> SUFFICES ASSUME NEW i \in 1..(p - 1) PROVE t[i] = s[i] /\ s[i] # n
      OBVIOUS
    <3>1. i \in 1..(k - 1) /\ i \in 1..k /\ i < r /\ i # r
      BY <1>1, <1>5, <1>11
    <3> QED
      BY <1>5, <1>7, <3>1
  <2>3. d = At(t, p)
    <3>1. CASE p = r
      <4>1. c = n
        BY <1>4, <1>5, <1>6, <3>1
      <4>2. CASE r + 1 \in 1..k
        <5>1. r \in 1..(k - 1) /\ ~(r < r)
          BY <1>1, <1>5, <4>2
        <5> QED
          BY <1>5, <1>6, <1>8, <3>1, <4>1, <4>2, <5>1
      <4>3. CASE r + 1 \notin 1..k
        <5>1. r \notin 1..(k - 1)
          BY <1>1, <1>5, <4>3
        <5> QED
          BY <1>6, <1>8, <3>1, <4>1, <4>3, <5>1
      <4> QED
        BY <4>2, <4>3
    <3>2. CASE p < r
      <4>1. p \in 1..(k - 1) /\ p # r
        BY <1>1, <1>5, <3>2
      <4>2. c = s[p] /\ c # n
        BY <1>4, <1>5, <1>6, <1>7, <2>1, <4>1
      <4> QED
        BY <1>5, <1>8, <3>2, <4>1, <4>2
    <3>3. p = r \/ p < r
      BY <1>5, <1>11
    <3> QED
      BY <3>1, <3>2, <3>3
  <2>4. \A i \in 1..(p - 1) : t[i] \in (se \ {n}) \cup (la \ {n})
    BY <1>4, <2>2
  <2>5. \A x \in se \ {n} : \E i \in 1..(p - 1) : t[i] = x
    BY <1>4, <2>2
  <2>6. WalkAt(t, d, se \ {n}, la \ {n}, p)
    BY <2>3, <2>4, <2>5 DEF WalkAt
  <2>7. IsWalk(t, d, se \ {n}, la \ {n})
    BY <2>1, <2>6 DEF IsWalk
  <2> QED
    BY <2>7 DEF t
<1>12. r < p \/ p <= r
  BY <1>5
<1> QED
  BY <1>10, <1>11, <1>12

\* ++it
LEMMA WalkStepped ==
  ASSUME NEW s \in Seq(Node), NEW c \in Node, NEW se, NEW la, IsWalk(s, c, se, la)
  PROVE  \E p \in 1..Len(s) : c = s[p] /\ IsWalk(s, At(s, p + 1), se \cup {c}, la)
<1> DEFINE k == Len(s)
<1>1. k \in Nat
  BY LenProperties
<1>2. PICK p \in 1..(k + 1) : WalkAt(s, c, se, la, p)
  BY DEF IsWalk
<1>3. c = At(s, p) /\ (\A i \in 1..(p - 1) : s[i] \in se \cup la)
      /\ (\A x \in se : \E i \in 1..(p - 1) : s[i] = x)
  BY <1>2 DEF WalkAt
<1>4. p \in 1..k /\ c = s[p]
  BY <1>3, NilAssumption DEF At
<1> HIDE DEF k
<1>5. (p + 1) - 1 = p /\ p + 1 \in 1..(k + 1)
      /\ \A i \in 1..p : i = p \/ i \in 1..(p - 1)
  BY <1>1, <1>4
<1>6. \A i \in 1..p : s[i] \in (se \cup {c}) \cup la
  BY <1>3, <1>4, <1>5
<1>7. \A x \in se \cup {c} : \E i \in 1..p : s[i] = x
  <2>1. p \in 1..p /\ 1..(p - 1) \subseteq 1..p
    BY <1>1, <1>4
  <2> QED
    BY <1>3, <1>4, <2>1
<1>8. WalkAt(s, At(s, p + 1), se \cup {c}, la, p + 1)
  BY <1>5, <1>6, <1>7 DEF WalkAt
<1>9. IsWalk(s, At(s, p + 1), se \cup {c}, la)
  BY <1>5, <1>8 DEF IsWalk, k
<1> QED
  BY <1>4, <1>9 DEF k

\* begin()
LEMMA WalkStarted ==
  ASSUME NEW s \in Seq(Node)
  PROVE  IsWalk(s, At(s, 1), {}, {})
<1>1. 1 \in 1..(Len(s) + 1) /\ 1..(1 - 1) = {}
  BY LenProperties
<1>2. WalkAt(s, At(s, 1), {}, {}, 1)
  BY <1>1 DEF WalkAt
<1> QED
  BY <1>1, <1>2 DEF IsWalk

-----------------------------------------------------------------------------
(* SequencedIndex.                                                         *)

Walking ==
  /\ walking \in BOOLEAN /\ seen \subseteq Node /\ late \subseteq Node
  /\ walking => IsWalk(Order, cur, seen, late)
  /\ ~walking => cur = Nil /\ seen = {} /\ late = {}
  /\ fresh # Nil /\ walking => fresh # cur /\ fresh \in late /\ fresh \notin seen

LInv ==
  /\ IsList(list, Order)
  /\ fresh \in Elements \cup {Nil}
  /\ Walking

LEMMA LInitial == Init => LInv /\ Order = <<>>
<1> SUFFICES ASSUME Init PROVE LInv /\ Order = <<>>
  OBVIOUS
<1>1. list \in Lists /\ list.head = Nil /\ list.tail = Nil
  BY DEF Init, NoLinks, Lists
<1>2. IsList(list, <<>>)
  BY <1>1, EmptyList
<1>3. Order = <<>>
  BY <1>2, ListIsRead DEF Order
<1>4. Walking
  BY NilAssumption DEF Init, Walking
<1> QED
  BY <1>2, <1>3, <1>4 DEF LInv, Init

\* What LInv says of the list.
LEMMA OrderIsList ==
  ASSUME LInv
  PROVE  /\ Order \in Seq(Node) /\ IsInjective(Order) /\ Len(Order) \in Nat
         /\ DOMAIN Order = 1..Len(Order) /\ \A i \in 1..Len(Order) : Order[i] \in Node
         /\ Elements \subseteq Node /\ Nil \notin Elements /\ list \in Lists
<1>1. Order \in Seq(Node) /\ IsInjective(Order) /\ list \in Lists
  BY DEF LInv, IsList
<1>2. /\ Len(Order) \in Nat /\ DOMAIN Order = 1..Len(Order)
      /\ \A i \in 1..Len(Order) : Order[i] \in Node
  BY <1>1, LenProperties
<1>3. Elements \subseteq Node
  BY <1>2 DEF Elements, ToSet
<1> QED
  BY <1>1, <1>2, <1>3, NilAssumption

\* The walk after a node n came in or changed place, when the order is t.
LEMMA Disturbed ==
  ASSUME Walking, NEW n \in Node, NEW t, Disturb(n), Order' = t,
         walking /\ cur # n => IsWalk(t, cur, seen \ {n}, late \cup {n}),
         fresh' = Nil \/ fresh' = n
  PROVE  Walking'
<1>1. CASE ~walking
  BY <1>1 DEF Walking, Disturb, walk
<1>2. CASE walking /\ cur = n
  BY <1>2 DEF Walking, Disturb, StopWalk
<1>3. CASE walking /\ cur # n
  <2>1. /\ walking' = walking /\ cur' = cur /\ seen' = seen \ {n} /\ late' = late \cup {n}
    BY <1>3 DEF Disturb
  <2>2. IsWalk(Order', cur', seen', late')
    BY <1>3, <2>1
  <2> QED
    BY <1>3, <2>1, <2>2 DEF Walking
<1> QED
  BY <1>1, <1>2, <1>3

\* The walk after n has left its place and come in again at place q of the rest.
LEMMA WalkReplaced ==
  ASSUME NEW s \in Seq(Node), IsInjective(s), NEW n \in ToSet(s), NEW t, t = RemoveFirst(s, n),
         NEW q \in 1..(Len(t) + 1),
         NEW c, c # n, NEW se, NEW la, IsWalk(s, c, se, la)
  PROVE  IsWalk(InsertAt(t, q, n), c, se \ {n}, la \cup {n})
<1>1. DOMAIN s = 1..Len(s) /\ \A i \in 1..Len(s) : s[i] \in Node
  BY LenProperties
<1>2. PICK r \in 1..Len(s) : n = s[r]
  BY <1>1 DEF ToSet
<1>3. t \in Seq(Node) /\ ToSet(t) = ToSet(s) \ {n}
  BY RemovedOnce
<1>4. n \in Node \ ToSet(t)
  BY <1>1, <1>2, <1>3
<1>5. IsWalk(t, c, se \ {n}, la \ {n})
  <2>1. c = IF c = n THEN At(s, r + 1) ELSE c
    OBVIOUS
  <2>2. IsWalk(RemoveFirst(s, n), c, se \ {n}, la \ {n})
    BY <1>2, <2>1, WalkRemoved
  <2> QED
    BY <2>2
<1>6. IsWalk(InsertAt(t, q, n), c, (se \ {n}) \ {n}, (la \ {n}) \cup {n})
  BY <1>3, <1>4, <1>5, WalkInserted
<1>7. (se \ {n}) \ {n} = se \ {n} /\ (la \ {n}) \cup {n} = la \cup {n}
  OBVIOUS
<1> QED
  BY <1>6, <1>7

\* The specification's operators on sequences are those of the list's.
LEMMA SameOperators ==
  ASSUME NEW s
  PROVE  /\ Sequence!ToSet(s) = ToSet(s) /\ Sequence!Reverse(s) = Reverse(s)
         /\ \A n : Sequence!RemoveFirst(s, n) = RemoveFirst(s, n)
         /\ \A p, n : Sequence!InsertAt(s, p, n) = InsertAt(s, p, n)
<1>1. Sequence!ToSet(s) = ToSet(s)
  BY DEF ToSet, Sequence!ToSet
<1>2. Sequence!Reverse(s) = Reverse(s)
  BY DEF Reverse, Sequence!Reverse
<1>3. ASSUME NEW n PROVE Sequence!RemoveFirst(s, n) = RemoveFirst(s, n)
  <2>1. \A S : Sequence!Min(S) = Min(S)
    BY DEF Min, Sequence!Min
  <2>2. Sequence!SelectInSeq(s, LAMBDA v : v = n) = SelectInSeq(s, LAMBDA v : v = n)
    BY <2>1 DEF SelectInSeq, Sequence!SelectInSeq
  <2>3. \A i : Sequence!RemoveAt(s, i) = RemoveAt(s, i)
    BY DEF RemoveAt, Sequence!RemoveAt
  <2> QED
    BY <2>2, <2>3 DEF RemoveFirst, Sequence!RemoveFirst
<1>4. ASSUME NEW p, NEW n PROVE Sequence!InsertAt(s, p, n) = InsertAt(s, p, n)
  BY DEF InsertAt, Sequence!InsertAt
<1> QED
  BY <1>1, <1>2, <1>3, <1>4

\* It has the same elements.
LEMMA SameElements ==
  ASSUME NEW s \in Seq(Node), IsInjective(s), NEW n \in ToSet(s), NEW t, t = RemoveFirst(s, n),
         NEW q \in 1..(Len(t) + 1)
  PROVE  ToSet(InsertAt(t, q, n)) = ToSet(s)
<1>1. \A i \in DOMAIN s : s[i] \in Node
  BY LenProperties
<1>2. t \in Seq(Node) /\ IsInjective(t) /\ ToSet(t) = ToSet(s) \ {n}
  BY RemovedOnce
<1>3. n \in Node \ ToSet(t)
  BY <1>1, <1>2 DEF ToSet
<1>4. ToSet(InsertAt(t, q, n)) = ToSet(t) \cup {n}
  BY <1>2, <1>3, Inserted
<1> QED
  BY <1>2, <1>4

\* What a step of the list's does: the invariant holds again, and the order changes as
\* the specification of a sequence lets it.
ListStep == LInv' /\ [Sequence!Next]_Order

LEMMA PushBackStep ==
  ASSUME LInv, NEW n \in Node, PushBack(n) \/ PushFront(n)
  PROVE  ListStep /\ n \notin Elements
<1> DEFINE t == Append(Order, n)
<1>1. /\ n \notin Elements /\ list' = PushedBack(list, n) /\ Disturb(n)
      /\ fresh' = Nil \/ fresh' = n
  BY DEF PushBack, PushFront
<1>2. IsList(list, Order) /\ Order \in Seq(Node) /\ IsInjective(Order) /\ n \in Node \ ToSet(Order)
  BY <1>1, OrderIsList DEF LInv, Elements
<1>3. IsList(list', t)
  BY <1>1, <1>2, PushedBackList
<1>4. Order' = t
  BY <1>3, ListIsRead DEF Order
<1>5. t = InsertAt(Order, Len(Order) + 1, n) /\ Len(Order) + 1 \in 1..(Len(Order) + 1)
  BY <1>2, OrderIsList, AppendedIsInserted
<1>6. walking => IsWalk(t, cur, seen \ {n}, late \cup {n})
  <2>1. walking => IsWalk(Order, cur, seen, late)
    BY DEF LInv, Walking
  <2>2. walking => IsWalk(InsertAt(Order, Len(Order) + 1, n), cur, seen \ {n}, late \cup {n})
    BY <1>2, <1>5, <2>1, WalkInserted
  <2> QED
    BY <1>5, <2>2
<1>7. Walking'
  <2>1. Walking
    BY DEF LInv
  <2> HIDE DEF t
  <2> QED
    BY <1>1, <1>4, <1>6, <2>1, Disturbed
<1>8. fresh' \in Elements' \cup {Nil}
  <2>1. n \in ToSet(t)
    BY <1>2, Appended
  <2> QED
    BY <1>1, <1>4, <2>1 DEF Elements
<1>9. LInv'
  BY <1>3, <1>4, <1>7, <1>8 DEF LInv
<1>10. Sequence!Next
  <2>1. Sequence!PushBack(n)
    BY <1>1, <1>4, SameOperators DEF Sequence!PushBack, Elements
  <2> QED
    BY <2>1 DEF Sequence!Next
<1> QED
  BY <1>1, <1>9, <1>10 DEF ListStep

\* Going to place q of the rest is going in front of the node there.
LEMMA SpecRelocates ==
  ASSUME LInv, NEW n \in Elements, NEW b, NEW t, t = RemoveFirst(Order, n),
         NEW q \in 1..Len(t), b = t[q], Order' = InsertAt(t, q, n)
  PROVE  Sequence!Next
<1>1. Order \in Seq(Node) /\ IsInjective(Order) /\ n \in ToSet(Order) /\ n \in Node
  BY OrderIsList DEF Elements
<1>2. t \in Seq(Node) /\ IsInjective(t) /\ ToSet(t) = ToSet(Order) \ {n}
  BY <1>1, RemovedOnce
<1>3. DOMAIN t = 1..Len(t) /\ \A i \in 1..Len(t) : t[i] \in Node
  BY <1>2, LenProperties
<1>4. b \in Node /\ b \in ToSet(Order) /\ n # b
  BY <1>2, <1>3 DEF ToSet
<1>5. Sequence!SelectInSeq(t, LAMBDA m : m = b) = q
  <2> DEFINE I == {j \in 1..Len(t) : t[j] = b}
  <2>1. I # {} /\ Min(I) = q
    BY <1>2, OnlyPlace
  <2>2. Sequence!Min(I) = Min(I)
    BY DEF Min, Sequence!Min
  <2> QED
    BY <2>1, <2>2 DEF Sequence!SelectInSeq
<1>6. Sequence!RemoveFirst(Order, n) = t /\ Sequence!InsertAt(t, q, n) = InsertAt(t, q, n)
      /\ Sequence!ToSet(Order) = ToSet(Order)
  BY SameOperators
<1>7. Sequence!Relocate(b, n)
  BY <1>1, <1>4, <1>5, <1>6 DEF Sequence!Relocate
<1> QED
  BY <1>1, <1>4, <1>7 DEF Sequence!Next

LEMMA RelocateStep ==
  ASSUME LInv, NEW n \in Node, NEW b \in Node \cup {Nil}, Relocate(b, n)
  PROVE  ListStep /\ ToSet(Order') = ToSet(Order)
<1>1. /\ n \in Elements /\ b \in Elements \cup {Nil} /\ list' = Relocated(list, b, n)
      /\ fresh' = fresh /\ fresh = Nil
  BY DEF Relocate
<1>2. IsList(list, Order) /\ Order \in Seq(Node) /\ IsInjective(Order) /\ n \in ToSet(Order)
  BY <1>1, OrderIsList DEF LInv, Elements
<1> DEFINE t == RemoveFirst(Order, n)
<1>3. t \in Seq(Node) /\ IsInjective(t) /\ ToSet(t) = ToSet(Order) \ {n} /\ Len(t) \in Nat
      /\ DOMAIN t = 1..Len(t) /\ n \in Node \ ToSet(t)
  <2>1. t \in Seq(Node) /\ IsInjective(t) /\ ToSet(t) = ToSet(Order) \ {n}
    BY <1>2, RemovedOnce
  <2> QED
    BY <2>1, LenProperties
<1> HIDE DEF t
<1>4. ASSUME n # b, NEW q \in 1..(Len(t) + 1), IsList(list', InsertAt(t, q, n))
      PROVE  LInv' /\ Order' = InsertAt(t, q, n) /\ ToSet(Order') = ToSet(Order)
  <2>1. Order' = InsertAt(t, q, n)
    BY <1>4, ListIsRead DEF Order
  <2>2. walking /\ cur # n => IsWalk(InsertAt(t, q, n), cur, seen \ {n}, late \cup {n})
    <3>1. walking => IsWalk(Order, cur, seen, late)
      BY DEF LInv, Walking
    <3> QED
      BY <1>2, <1>4, <3>1, WalkReplaced DEF t
  <2>3. Walking'
    <3>1. Walking /\ Disturb(n)
      BY <1>4 DEF LInv, Relocate
    <3> QED
      BY <1>1, <2>1, <2>2, <3>1, Disturbed
  <2>4. ToSet(InsertAt(t, q, n)) = ToSet(Order)
    BY <1>2, <1>4, SameElements DEF t
  <2> QED
    BY <1>1, <1>4, <2>1, <2>3, <2>4 DEF LInv
<1>5. CASE n = b
  <2>1. UNCHANGED vars
    BY <1>1, <1>5 DEF Relocate, Relocated, vars
  <2>2. LInv' /\ Order' = Order
    BY <2>1 DEF LInv, Walking, Order, Elements, vars, walk
  <2> QED
    BY <2>2 DEF ListStep
<1>6. CASE n # b /\ b = Nil
  <2>1. IsList(list', Append(t, n)) /\ Append(t, n) = InsertAt(t, Len(t) + 1, n)
    BY <1>1, <1>2, <1>3, <1>6, MovedToBackList, AppendedIsInserted DEF t
  <2>2. Len(t) + 1 \in 1..(Len(t) + 1)
    BY <1>3
  <2>3. LInv' /\ Order' = InsertAt(t, Len(t) + 1, n) /\ ToSet(Order') = ToSet(Order)
    BY <1>4, <1>6, <2>1, <2>2
  <2>4. Sequence!MoveToBack(n)
    BY <1>2, <2>1, <2>3, SameOperators DEF Sequence!MoveToBack, t
  <2> QED
    BY <2>3, <2>4 DEF ListStep, Sequence!Next
<1>7. CASE n # b /\ b # Nil
  <2>1. b \in ToSet(t)
    BY <1>1, <1>3, <1>7 DEF Elements
  <2>2. PICK q \in 1..Len(t) : b = t[q]
    BY <1>3, <2>1 DEF ToSet
  <2>3. SelectInSeq(t, LAMBDA m : m = b) = q
    <3> DEFINE I == {j \in 1..Len(t) : t[j] = b}
    <3>1. I # {} /\ Min(I) = q
      BY <1>3, <2>2, OnlyPlace
    <3> QED
      BY <3>1 DEF SelectInSeq
  <2>4. IsList(list', InsertAt(t, q, n))
    BY <1>1, <1>2, <1>7, <2>3, RelocatedList DEF t, Elements
  <2>5. q \in 1..(Len(t) + 1)
    BY <1>3
  <2>6. LInv' /\ Order' = InsertAt(t, q, n) /\ ToSet(Order') = ToSet(Order)
    BY <1>4, <1>7, <2>4, <2>5
  <2>7. Sequence!Next
    BY <1>1, <2>2, <2>6, SpecRelocates DEF t
  <2> QED
    BY <2>6, <2>7 DEF ListStep
<1> QED
  BY <1>5, <1>6, <1>7

LEMMA MoveToFrontStep ==
  ASSUME LInv, MoveToFront
  PROVE  ListStep /\ ToSet(Order') = ToSet(Order)
<1> SUFFICES ASSUME NEW n, n = fresh
             PROVE  ListStep /\ ToSet(Order') = ToSet(Order)
  OBVIOUS
<1>1. n \in Elements /\ list' = MovedToFront(list, n) /\ fresh' = Nil /\ UNCHANGED walk
  BY DEF MoveToFront, LInv
<1>2. IsList(list, Order) /\ Order \in Seq(Node) /\ IsInjective(Order) /\ n \in ToSet(Order)
  BY <1>1, OrderIsList DEF LInv, Elements
<1> DEFINE t == RemoveFirst(Order, n)
<1>3. t \in Seq(Node) /\ Len(t) = Len(Order) - 1 /\ Len(t) \in Nat
  <2>1. t \in Seq(Node) /\ Len(t) = Len(Order) - 1
    BY <1>2, RemovedOnce
  <2> QED
    BY <2>1, LenProperties
<1>4. IsList(list', InsertAt(t, 1, n))
  BY <1>1, <1>2, MovedToFrontList
<1> HIDE DEF t
<1>5. Order' = InsertAt(t, 1, n)
  BY <1>4, ListIsRead DEF Order
<1>6. Walking'
  <2>1. CASE walking
    <3>1. n # cur /\ n \in late /\ n \notin seen /\ IsWalk(Order, cur, seen, late)
      BY <1>1, <2>1, OrderIsList DEF LInv, Walking
    <3>2. 1 \in 1..(Len(t) + 1)
      BY <1>3
    <3>3. IsWalk(InsertAt(t, 1, n), cur, seen \ {n}, late \cup {n})
      BY <1>2, <3>1, <3>2, WalkReplaced DEF t
    <3>4. seen \ {n} = seen /\ late \cup {n} = late
      BY <3>1
    <3>5. IsWalk(Order', cur', seen', late')
      BY <1>1, <1>5, <3>3, <3>4 DEF walk
    <3> QED
      BY <1>1, <2>1, <3>5 DEF LInv, Walking, walk
  <2>2. CASE ~walking
    BY <1>1, <2>2 DEF LInv, Walking, walk
  <2> QED
    BY <2>1, <2>2
<1>7. LInv'
  BY <1>1, <1>4, <1>5, <1>6 DEF LInv
<1>8. [Sequence!Next]_Order
  <2>1. CASE Len(t) = 0
    <3>1. Order' = Order
      <4>1. Len(Order) = 1 /\ DOMAIN Order = 1..1
        BY <1>2, <1>3, <2>1, LenProperties
      <4>2. Order[1] = n
        BY <1>2, <4>1 DEF ToSet
      <4>3. n \in Node /\ 1 \in 1..(Len(t) + 1)
        BY <1>2, <1>3, <4>1, <4>2, OrderIsList
      <4> DEFINE u == InsertAt(t, 1, n)
      <4>4. /\ u \in Seq(Node) /\ Len(u) = Len(t) + 1
            /\ \A i \in 1..(Len(t) + 1) :
                 u[i] = IF i < 1 THEN t[i] ELSE IF i = 1 THEN n ELSE t[i - 1]
        BY <1>3, <4>3, InsertedAt
      <4> HIDE DEF u
      <4>5. Len(u) = Len(Order) /\ \A i \in 1..Len(u) : u[i] = Order[i]
        BY <2>1, <4>1, <4>2, <4>4
      <4>6. u = Order
        BY <1>2, <4>4, <4>5, SeqEqual
      <4> QED
        BY <1>5, <4>6 DEF u
    <3> QED
      BY <3>1
  <2>2. CASE Len(t) # 0
    <3>1. 1 \in 1..Len(t)
      BY <1>3, <2>2
    <3>2. Sequence!Next
      BY <1>1, <1>5, <3>1, SpecRelocates DEF t
    <3> QED
      BY <3>2
  <2> QED
    BY <2>1, <2>2
<1>9. ToSet(InsertAt(t, 1, n)) = ToSet(Order)
  <2>1. 1 \in 1..(Len(t) + 1)
    BY <1>3
  <2> QED
    BY <1>2, <2>1, SameElements DEF t
<1> QED
  BY <1>5, <1>7, <1>8, <1>9 DEF ListStep

LEMMA EraseStep ==
  ASSUME LInv, NEW n \in Node, Erase(n)
  PROVE  ListStep /\ n \in Elements
<1>1. /\ n \in Elements /\ list' = Unlinked(list, n) /\ fresh' = Nil
      /\ cur' = (IF cur = n THEN list.next[n] ELSE cur)
      /\ seen' = seen \ {n} /\ late' = late \ {n} /\ walking' = walking
  BY DEF Erase
<1>2. IsList(list, Order) /\ Order \in Seq(Node) /\ IsInjective(Order) /\ n \in ToSet(Order)
  BY <1>1, OrderIsList DEF LInv, Elements
<1> DEFINE t == RemoveFirst(Order, n)
<1>3. IsList(list', t)
  BY <1>1, <1>2, UnlinkedList
<1> HIDE DEF t
<1>4. Order' = t
  BY <1>3, ListIsRead DEF Order
<1>5. PICK r \in 1..Len(Order) : n = Order[r]
  BY <1>2, OrderIsList DEF ToSet
<1>6. list.next[n] = At(Order, r + 1)
  BY <1>2, <1>5 DEF IsList
<1>7. walking => IsWalk(Order', cur', seen', late')
  <2>1. walking => IsWalk(Order, cur, seen, late)
    BY DEF LInv, Walking
  <2>2. cur' = IF cur = n THEN At(Order, r + 1) ELSE cur
    BY <1>1, <1>6
  <2>3. walking => IsWalk(t, cur', seen \ {n}, late \ {n})
    BY <1>2, <1>5, <2>1, <2>2, WalkRemoved DEF t
  <2> QED
    BY <1>1, <1>4, <2>3
<1>8. Walking'
  BY <1>1, <1>7, NilAssumption DEF LInv, Walking
<1>9. LInv'
  BY <1>1, <1>3, <1>4, <1>8 DEF LInv
<1>10. Sequence!Next
  <2>1. Sequence!Erase(n)
    BY <1>2, <1>4, SameOperators DEF Sequence!Erase, t
  <2> QED
    BY <2>1 DEF Sequence!Next
<1> QED
  BY <1>1, <1>9, <1>10 DEF ListStep

\* Steps that leave the links as they are.
LEMMA SameList ==
  ASSUME LInv, list' = list, fresh' = Nil \/ fresh' = fresh, Walking'
  PROVE  ListStep
<1>1. Order' = Order /\ Elements' = Elements
  BY DEF Order, Elements
<1>2. LInv'
  BY <1>1 DEF LInv
<1> QED
  BY <1>1, <1>2 DEF ListStep

LEMMA WalkSteps ==
  ASSUME LInv, StartWalk \/ StepWalk \/ EndWalk \/ ObserverThrows
  PROVE  ListStep
<1>1. list' = list /\ (fresh' = Nil \/ fresh' = fresh)
  BY DEF StartWalk, StepWalk, EndWalk, ObserverThrows
<1>2. Order' = Order /\ Order \in Seq(Node)
  BY <1>1, OrderIsList DEF Order
<1>3. CASE StartWalk
  <2>1. walking' = TRUE /\ cur' = list.head /\ seen' = {} /\ late' = {} /\ fresh' = Nil
    BY <1>3 DEF StartWalk, LInv, Walking
  <2>2. list.head = At(Order, 1)
    BY DEF LInv, IsList
  <2>3. IsWalk(Order', cur', seen', late')
    BY <1>2, <2>1, <2>2, WalkStarted
  <2>4. Walking'
    BY <2>1, <2>3 DEF Walking
  <2> QED
    BY <1>1, <2>4, SameList
<1>4. CASE StepWalk
  <2>1. /\ walking /\ walking' = walking /\ cur' = list.next[cur] /\ seen' = seen \cup {cur}
        /\ late' = late /\ fresh' = Nil /\ cur # Nil
    BY <1>4 DEF StepWalk
  <2>2. IsWalk(Order, cur, seen, late)
    BY <2>1 DEF LInv, Walking
  <2>3. cur \in Node
    BY <1>2, <2>1, <2>2, OrderIsList DEF IsWalk, WalkAt, At
  <2>4. PICK p \in 1..Len(Order) :
          cur = Order[p] /\ IsWalk(Order, At(Order, p + 1), seen \cup {cur}, late)
    BY <1>2, <2>2, <2>3, WalkStepped
  <2>5. list.next[cur] = At(Order, p + 1)
    BY <2>4 DEF LInv, IsList
  <2>6. IsWalk(Order', cur', seen', late')
    BY <1>2, <2>1, <2>4, <2>5
  <2>7. Walking'
    BY <2>1, <2>3, <2>6 DEF LInv, Walking
  <2> QED
    BY <1>1, <2>7, SameList
<1>5. CASE EndWalk
  <2>1. Walking'
    BY <1>5 DEF EndWalk, StopWalk, Walking
  <2> QED
    BY <1>1, <2>1, SameList
<1>6. CASE ObserverThrows
  <2>1. Walking'
    BY <1>2, <1>6 DEF ObserverThrows, LInv, Walking, walk
  <2> QED
    BY <1>1, <2>1, SameList
<1> QED
  BY <1>3, <1>4, <1>5, <1>6

LEMMA PushBackRefusedStep ==
  ASSUME LInv, NEW n \in Node, PushBackRefused(n)
  PROVE  ListStep
<1>1. n \in Node \ ToSet(Order) /\ list' = Unlinked(PushedBack(list, n), n)
      /\ fresh' = fresh /\ UNCHANGED walk
  BY DEF PushBackRefused, Elements
<1>2. IsList(list', Order)
  BY <1>1, RefusedList DEF LInv
<1>3. Order' = Order
  BY <1>2, ListIsRead DEF Order
<1>4. Walking'
  BY <1>1, <1>3 DEF LInv, Walking, walk
<1>5. LInv'
  BY <1>1, <1>2, <1>3, <1>4 DEF LInv, Elements
<1> QED
  BY <1>3, <1>5 DEF ListStep

LEMMA ReverseAllStep ==
  ASSUME LInv, ReverseAll
  PROVE  ListStep
<1>1. list' = Reversed(list) /\ fresh' = Nil /\ StopWalk
  BY DEF ReverseAll
<1>2. IsList(list', Reverse(Order))
  BY <1>1, ReversedList DEF LInv
<1>3. Order' = Reverse(Order)
  BY <1>2, ListIsRead DEF Order
<1>4. Walking'
  BY <1>1 DEF Walking, StopWalk
<1>5. LInv'
  BY <1>1, <1>2, <1>3, <1>4 DEF LInv
<1>6. Sequence!Next
  BY <1>3, SameOperators DEF Sequence!Next, Sequence!ReverseAll
<1> QED
  BY <1>5, <1>6 DEF ListStep

LEMMA ClearStep ==
  ASSUME LInv, Clear
  PROVE  ListStep /\ Order' = <<>>
<1>1. list' = [list EXCEPT !.head = Nil, !.tail = Nil] /\ fresh' = Nil /\ StopWalk
  BY DEF Clear
<1>2. list' \in Lists /\ list'.head = Nil /\ list'.tail = Nil
  BY <1>1, OrderIsList DEF Lists
<1>3. IsList(list', <<>>)
  BY <1>2, EmptyList
<1>4. Order' = <<>>
  BY <1>3, ListIsRead DEF Order
<1>5. Walking'
  BY <1>1 DEF Walking, StopWalk
<1>6. LInv'
  BY <1>1, <1>3, <1>4, <1>5 DEF LInv
<1>7. Sequence!Next
  BY <1>4 DEF Sequence!Next, Sequence!Clear
<1> QED
  BY <1>4, <1>6, <1>7 DEF ListStep

LEMMA EveryListStep ==
  ASSUME LInv, [Next]_vars
  PROVE  ListStep
<1>1. CASE UNCHANGED vars
  <2>1. LInv' /\ Order' = Order
    BY <1>1 DEF LInv, Walking, Order, Elements, vars, walk
  <2> QED
    BY <2>1 DEF ListStep
<1>2. ASSUME NEW n \in Node,
             PushBack(n) \/ PushBackRefused(n) \/ PushFront(n) \/ Erase(n)
             \/ \E b \in Node \cup {Nil} : Relocate(b, n)
      PROVE  ListStep
  BY <1>2, PushBackStep, PushBackRefusedStep, EraseStep, RelocateStep
<1>3. CASE \/ MoveToFront \/ ObserverThrows
           \/ ReverseAll \/ Clear
           \/ StartWalk \/ StepWalk \/ EndWalk
  BY <1>3, MoveToFrontStep, WalkSteps, ReverseAllStep, ClearStep
<1> QED
  BY <1>1, <1>2, <1>3 DEF Next

\* Every reachable state has a list that its links lead through, and a walk that is
\* somewhere on it.
THEOREM LInvHolds == Spec => []LInv
<1>1. Init => LInv
  BY LInitial
<1>2. LInv /\ [Next]_vars => LInv'
  BY EveryListStep DEF ListStep
<1> QED
  BY <1>1, <1>2, PTL DEF Spec

\* intrusive_list can be read from either end: for every number of nodes, prev_ undoes
\* next_ after any relocations, reversals and erasures.
THEOREM ReadsBothWays == Spec => []BothWays
<1>1. LInv => BothWays
  <2> SUFFICES ASSUME LInv PROVE BothWays
    OBVIOUS
  <2>1. From(list.prev, list.tail) = Reverse(Order)
    BY ListIsRead DEF LInv
  <2>2. list \in Lists /\ (list.head = Nil <=> list.tail = Nil)
    <3>1. list.head = At(Order, 1) /\ list.tail = At(Order, Len(Order))
      BY DEF LInv, IsList
    <3>2. 1 \in 1..Len(Order) <=> Len(Order) \in 1..Len(Order)
      BY OrderIsList
    <3> QED
      BY <3>1, <3>2, OrderIsList, NilAssumption DEF At
  <2>3. cur \in Node \cup {Nil}
    <3>1. walking => IsWalk(Order, cur, seen, late)
      BY DEF LInv, Walking
    <3>2. CASE walking
      BY <3>1, <3>2, OrderIsList DEF IsWalk, WalkAt, At
    <3>3. CASE ~walking
      BY <3>3 DEF LInv, Walking
    <3> QED
      BY <3>2, <3>3
  <2>4. TypeOK
    BY <2>2, <2>3, OrderIsList DEF TypeOK, Lists, LInv, Walking
  <2> QED
    BY <2>1, <2>4 DEF BothWays
<1> QED
  BY <1>1, LInvHolds, PTL

\* ++it meets every element once and in order, whatever is erased, pushed or relocated
\* meanwhile, for every number of nodes.
THEOREM WalksInOrder == Spec => []WalkInOrder
<1>1. LInv => WalkInOrder
  <2> SUFFICES ASSUME LInv, walking PROVE WalkInOrder
    BY DEF WalkInOrder
  <2> DEFINE I == {j \in 1..Len(Order) : Order[j] = cur}
  <2>1. Order \in Seq(Node) /\ IsInjective(Order) /\ Len(Order) \in Nat
        /\ DOMAIN Order = 1..Len(Order) /\ \A i \in 1..Len(Order) : Order[i] \in Node
    BY OrderIsList
  <2>2. PICK p \in 1..(Len(Order) + 1) : WalkAt(Order, cur, seen, late, p)
    BY DEF LInv, Walking, IsWalk
  <2>3. cur = At(Order, p) /\ (\A i \in 1..(p - 1) : Order[i] \in seen \cup late)
        /\ (\A x \in seen : \E i \in 1..(p - 1) : Order[i] = x)
    BY <2>2 DEF WalkAt
  <2>4. IF cur = Nil THEN p = Len(Order) + 1 ELSE I # {} /\ Min(I) = p
    <3>1. CASE p \in 1..Len(Order)
      <4>1. cur = Order[p] /\ cur # Nil
        BY <2>1, <2>3, <3>1, NilAssumption DEF At
      <4>2. I # {} /\ Min(I) = p
        BY <2>1, <3>1, <4>1, OnlyPlace
      <4> QED
        BY <4>1, <4>2
    <3>2. CASE p = Len(Order) + 1
      <4>1. p \notin 1..Len(Order)
        BY <2>1, <3>2
      <4> QED
        BY <2>3, <3>2, <4>1 DEF At
    <3>3. p \in 1..Len(Order) \/ p = Len(Order) + 1
      BY <2>1
    <3> QED
      BY <3>1, <3>2, <3>3
  <2> DEFINE u == SubSeq(Order, 1, p - 1)
  <2>5. DOMAIN u = 1..(p - 1) /\ \A i \in 1..(p - 1) : u[i] = Order[i]
    <3>1. 1 \in 1..(Len(Order) + 1) /\ p - 1 \in (1 - 1)..Len(Order)
      BY <2>1
    <3>2. /\ u \in Seq(Node) /\ Len(u) = (IF 1 <= p - 1 THEN (p - 1) - 1 + 1 ELSE 0)
          /\ \A i \in 1..((p - 1) - 1 + 1) : u[i] = Order[1 + i - 1]
      BY <2>1, <3>1, SubSeqProperties
    <3> HIDE DEF u
    <3>3. Len(u) = p - 1 /\ DOMAIN u = 1..Len(u)
      BY <2>1, <3>2, LenProperties
    <3> QED
      BY <2>1, <3>2, <3>3
  <2> HIDE DEF u
  <2>6. ToSet(u) = {Order[i] : i \in 1..(p - 1)}
    BY <2>5 DEF ToSet
  <2>7. p # 0 /\ seen \subseteq ToSet(u) /\ ToSet(u) \subseteq seen \cup late
    BY <2>1, <2>3, <2>6
  <2> DEFINE at == IF cur = Nil THEN Len(Order) + 1
                   ELSE SelectInSeq(Order, LAMBDA m : m = cur)
  <2>8. at = p
    BY <2>4 DEF SelectInSeq
  <2>9. at # 0 /\ seen \subseteq ToSet(SubSeq(Order, 1, at - 1))
        /\ ToSet(SubSeq(Order, 1, at - 1)) \subseteq seen \cup late
    <3> HIDE DEF at
    <3> QED
      BY <2>7, <2>8 DEF u
  <2> HIDE DEF I
  <2> QED
    BY <2>9 DEF WalkInOrder
<1> QED
  BY <1>1, LInvHolds, PTL

\* The pointer surgery implements a sequence, for every number of nodes.
THEOREM RefinesSequence == Spec => Refines
<1>1. Init => Sequence!Init
  BY LInitial DEF Sequence!Init
<1>2. LInv /\ [Next]_vars => [Sequence!Next]_Order
  BY EveryListStep DEF ListStep
<1> QED
  BY <1>1, <1>2, LInvHolds, PTL DEF Spec, Refines, Sequence!Spec

-----------------------------------------------------------------------------
(* RandomAccessIndex.                                                      *)

\* The elements in front of place i of s.
InFront(s, i) == {s[j] : j \in 1..(i - 1)}

\* The registry's links lead through the array, and an iterator has passed what is in
\* front of it.
RInv ==
  /\ IsList(registry, array) /\ ToSet(array) = Elements
  /\ spot \in 0..(Len(array) + 1)
  /\ met = IF spot = NoSpot THEN {} ELSE InFront(array, spot)

LEMMA ArrayIsList ==
  ASSUME RInv
  PROVE  /\ array \in Seq(Node) /\ IsInjective(array) /\ Len(array) \in Nat
         /\ DOMAIN array = 1..Len(array) /\ \A i \in 1..Len(array) : array[i] \in Node
         /\ From(registry.next, registry.head) = array
         /\ From(registry.prev, registry.tail) = Reverse(array)
<1>1. array \in Seq(Node) /\ IsInjective(array)
  BY DEF RInv, IsList
<1>2. Len(array) \in Nat /\ DOMAIN array = 1..Len(array) /\ \A i \in 1..Len(array) : array[i] \in Node
  BY <1>1, LenProperties
<1>3. From(registry.next, registry.head) = array /\ From(registry.prev, registry.tail) = Reverse(array)
  BY ListIsRead DEF RInv
<1> QED
  BY <1>1, <1>2, <1>3

\* A place in front of which nothing changes, or one no iterator stands on any more.
LEMMA SpotKept ==
  ASSUME RInv, IsList(registry', array'), ToSet(array') = Elements',
         \/ StopVisit
         \/ /\ UNCHANGED <<spot, met>>
            /\ spot # NoSpot => /\ spot <= Len(array') + 1
                                /\ \A i \in 1..(spot - 1) : array'[i] = array[i]
  PROVE  RInv'
<1>1. array' \in Seq(Node) /\ Len(array') \in Nat
  <2>1. array' \in Seq(Node)
    BY DEF IsList
  <2> QED
    BY <2>1, LenProperties
<1>2. CASE StopVisit
  BY <1>1, <1>2 DEF StopVisit, RInv, NoSpot
<1>3. CASE UNCHANGED <<spot, met>> /\ spot = NoSpot
  BY <1>1, <1>3 DEF RInv, NoSpot
<1>4. CASE ~StopVisit /\ spot # NoSpot
  <2>0. /\ UNCHANGED <<spot, met>> /\ spot <= Len(array') + 1
        /\ \A i \in 1..(spot - 1) : array'[i] = array[i]
    BY <1>4
  <2>1. spot' = spot /\ met' = InFront(array, spot) /\ spot' \in 0..(Len(array') + 1)
    BY <1>1, <1>4, <2>0, ArrayIsList DEF RInv
  <2>2. InFront(array', spot) = InFront(array, spot)
    BY <2>0 DEF InFront
  <2> QED
    BY <1>4, <2>0, <2>1, <2>2 DEF RInv, NoSpot
<1> QED
  BY <1>2, <1>3, <1>4

LEMMA RInitial == RInit => RInv
<1> SUFFICES ASSUME RInit PROVE RInv
  OBVIOUS
<1>1. list \in Lists /\ list.head = Nil /\ list.tail = Nil /\ Order = <<>>
  BY LInitial DEF RInit, Init, NoLinks, Lists
<1>2. IsList(registry, array)
  BY <1>1, EmptyList DEF RInit
<1>3. array = <<>> /\ spot = 0 /\ met = {} /\ Len(array) = 0
  BY DEF RInit, NoSpot
<1> QED
  BY <1>1, <1>2, <1>3 DEF RInv, NoSpot, Elements

\* An erasure closes the gap in the array.
LEMMA ArrayErased ==
  ASSUME LInv, RInv, NEW n \in Node, Erase(n), array' = Removed(n), Unregistered(n)
  PROVE  \E at \in 1..Len(array) :
           /\ array[at] = n /\ PlaceOf(n) = at
           /\ IsList(registry', array') /\ ToSet(array') = Elements'
           /\ Len(array') = Len(array) - 1
           /\ \A i \in 1..(Len(array) - 1) :
                array'[i] = IF i < at THEN array[i] ELSE array[i + 1]
<1>1. n \in Elements /\ Order' = RemoveFirst(Order, n)
  <2>1. n \in Elements /\ list' = Unlinked(list, n)
    BY DEF Erase
  <2>2. IsList(list', RemoveFirst(Order, n))
    BY <2>1, UnlinkedList DEF LInv, Elements
  <2> QED
    BY <2>1, <2>2, ListIsRead DEF Order
<1>2. PICK at \in 1..Len(array) : n = array[at]
  BY <1>1, ArrayIsList DEF RInv, ToSet
<1> DEFINE I == {j \in 1..Len(array) : array[j] = n}
<1>3. I # {} /\ Min(I) = at
  BY <1>2, ArrayIsList, OnlyPlace
<1>4. PlaceOf(n) = at
  BY <1>3 DEF PlaceOf, SelectInSeq
<1>5. RemoveFirst(array, n) = RemoveAt(array, at)
  <2>1. SelectInSeq(array, LAMBDA v : v = n) = at
    BY <1>3 DEF SelectInSeq
  <2> QED
    BY <1>2, <2>1 DEF RemoveFirst
<1>6. array' = RemoveFirst(array, n)
  BY <1>4, <1>5 DEF Removed
<1>7. IsList(registry', array')
  <2>1. n \in ToSet(array)
    BY <1>1 DEF RInv
  <2> QED
    BY <1>6, <2>1, UnlinkedList DEF RInv, Unregistered
<1>8. ToSet(array') = Elements'
  <2>1. ToSet(array') = ToSet(array) \ {n}
    BY <1>1, <1>6, ArrayIsList, RemovedOnce DEF RInv
  <2>2. ToSet(RemoveFirst(Order, n)) = ToSet(Order) \ {n}
    BY <1>1, OrderIsList, RemovedOnce DEF Elements
  <2> QED
    BY <1>1, <2>1, <2>2 DEF RInv, Elements
<1>9. /\ Len(array') = Len(array) - 1
      /\ \A i \in 1..(Len(array) - 1) : array'[i] = IF i < at THEN array[i] ELSE array[i + 1]
  BY <1>2, <1>6, ArrayIsList, RemovedAt
<1> QED
  BY <1>2, <1>4, <1>7, <1>8, <1>9

LEMMA InsertStep ==
  ASSUME LInv, RInv, NEW n \in Node, Insert(n)
  PROVE  RInv'
<1>1. /\ n \notin Elements /\ array' = Append(array, n) /\ registry' = PushedBack(registry, n)
      /\ Grow /\ list' = PushedBack(list, n)
  BY PushBackStep DEF Insert, Registered, PushBack, PushFront
<1>2. IsList(registry', array')
  <2>1. n \in Node \ ToSet(array)
    BY <1>1 DEF RInv
  <2> QED
    BY <1>1, <2>1, PushedBackList DEF RInv
<1>3. ToSet(array') = Elements'
  <2>1. ToSet(array') = ToSet(array) \cup {n}
    BY <1>1, ArrayIsList, Appended DEF RInv
  <2>2. Order' = Append(Order, n)
    <3>1. IsList(list', Append(Order, n))
      BY <1>1, PushedBackList DEF LInv, Elements
    <3> QED
      BY <3>1, ListIsRead DEF Order
  <2>3. ToSet(Append(Order, n)) = ToSet(Order) \cup {n}
    BY <1>1, OrderIsList, Appended DEF Elements
  <2> QED
    BY <2>1, <2>2, <2>3 DEF RInv, Elements
<1>4. Len(array') = Len(array) + 1 /\ \A i \in 1..Len(array) : array'[i] = array[i]
  BY <1>1, ArrayIsList, AppendProperties
<1>5. StopVisit \/ (UNCHANGED <<spot, met>> /\ spot # Len(array) + 1)
  BY <1>1 DEF Grow
<1>6. spot # Len(array) + 1 =>
        spot <= Len(array') + 1 /\ \A i \in 1..(spot - 1) : array'[i] = array[i]
  <2>1. spot \in 0..(Len(array) + 1) /\ Len(array) \in Nat
    BY ArrayIsList DEF RInv
  <2>2. spot # Len(array) + 1 => \A i \in 1..(spot - 1) : i \in 1..Len(array)
    BY <2>1
  <2> QED
    BY <1>4, <2>1, <2>2
<1> QED
  BY <1>2, <1>3, <1>5, <1>6, SpotKept

LEMMA InsertRefusedStep ==
  ASSUME LInv, RInv, NEW n \in Node, InsertRefused(n)
  PROVE  RInv'
<1>1. array' = array /\ registry' = registry /\ Grow /\ PushBackRefused(n)
  BY DEF InsertRefused
<1>2. Elements' = Elements
  <2>1. list' = Unlinked(PushedBack(list, n), n) /\ n \in Node \ ToSet(Order)
    BY <1>1 DEF PushBackRefused, Elements
  <2>2. IsList(list', Order)
    BY <2>1, RefusedList DEF LInv
  <2>3. Order' = Order
    BY <2>2, ListIsRead DEF Order
  <2> QED
    BY <2>3 DEF Elements
<1>3. IsList(registry', array') /\ ToSet(array') = Elements'
  BY <1>1, <1>2 DEF RInv
<1>4. StopVisit \/ UNCHANGED <<spot, met>>
  BY <1>1 DEF Grow
<1>5. spot <= Len(array') + 1
  BY <1>1, ArrayIsList DEF RInv
<1> QED
  BY <1>1, <1>3, <1>4, <1>5, SpotKept

LEMMA EraseElsewhereStep ==
  ASSUME LInv, RInv, NEW n \in Node, EraseElsewhere(n)
  PROVE  RInv'
<1>1. /\ Erase(n) /\ array' = Removed(n) /\ Unregistered(n)
      /\ IF spot # NoSpot /\ PlaceOf(n) <= spot THEN StopVisit ELSE UNCHANGED <<spot, met>>
  BY DEF EraseElsewhere
<1>2. PICK at \in 1..Len(array) :
        /\ array[at] = n /\ PlaceOf(n) = at
        /\ IsList(registry', array') /\ ToSet(array') = Elements'
        /\ Len(array') = Len(array) - 1
        /\ \A i \in 1..(Len(array) - 1) :
             array'[i] = IF i < at THEN array[i] ELSE array[i + 1]
  BY <1>1, ArrayErased
<1>3. \/ StopVisit
      \/ UNCHANGED <<spot, met>> /\ (spot = NoSpot \/ ~(at <= spot))
  BY <1>1, <1>2
<1>4. spot # NoSpot /\ ~(at <= spot) =>
        spot <= Len(array') + 1 /\ \A i \in 1..(spot - 1) : array'[i] = array[i]
  <2>1. spot \in 0..(Len(array) + 1) /\ Len(array) \in Nat /\ at \in 1..Len(array)
    BY ArrayIsList DEF RInv
  <2>2. ~(at <= spot) => spot <= (Len(array) - 1) + 1
                         /\ \A i \in 1..(spot - 1) : i \in 1..(Len(array) - 1) /\ i < at
    BY <2>1
  <2> QED
    BY <1>2, <2>2
<1> QED
  BY <1>2, <1>3, <1>4, SpotKept

\* it = index.erase(it): the place stays, and the next element moves up to it.
LEMMA EraseAtSpotStep ==
  ASSUME LInv, RInv, EraseAtSpot
  PROVE  RInv' /\ \E n \in Node : Erase(n)
<1> SUFFICES ASSUME NEW n, n = array[spot]
             PROVE  RInv' /\ \E m \in Node : Erase(m)
  OBVIOUS
<1>1. spot \in 1..Len(array) /\ n \in Node /\ Len(array) \in Nat
  BY ArrayIsList DEF EraseAtSpot
<1> DEFINE next == IF spot = Len(array) THEN Nil ELSE array[spot + 1]
<1>2. Erase(n) /\ array' = Removed(n) /\ Unregistered(n) /\ spot' = AfterErasure(n, next)
      /\ met' = met
  BY DEF EraseAtSpot
<1>3. PICK at \in 1..Len(array) :
        /\ array[at] = n /\ PlaceOf(n) = at
        /\ IsList(registry', array') /\ ToSet(array') = Elements'
        /\ Len(array') = Len(array) - 1
        /\ \A i \in 1..(Len(array) - 1) :
             array'[i] = IF i < at THEN array[i] ELSE array[i + 1]
  BY <1>1, <1>2, ArrayErased
<1>4. at = spot
  BY <1>1, <1>3, ArrayIsList DEF IsInjective
<1>5. spot' = spot
  <2>1. CASE spot = Len(array)
    BY <1>1, <1>2, <1>3, <2>1 DEF AfterErasure
  <2>2. CASE spot # Len(array)
    <3>1. spot \in 1..(Len(array) - 1) /\ spot + 1 \in 1..Len(array) /\ ~(spot < spot)
      BY <1>1, <2>2
    <3>2. next = array[spot + 1] /\ next # Nil /\ array'[spot] = next
      BY <1>3, <1>4, <2>2, <3>1, ArrayIsList, NilAssumption
    <3>3. array' \in Seq(Node) /\ IsInjective(array') /\ spot \in 1..Len(array')
      BY <1>3, <3>1 DEF IsList
    <3> HIDE DEF next
    <3> DEFINE I == {j \in 1..Len(array') : array'[j] = next}
    <3>4. I # {} /\ Min(I) = spot
      BY <3>2, <3>3, OnlyPlace
    <3>5. SelectInSeq(array', LAMBDA m : m = next) = spot
      BY <3>4 DEF SelectInSeq
    <3> QED
      BY <1>2, <3>2, <3>5 DEF AfterErasure
  <2> QED
    BY <2>1, <2>2
<1>6. spot <= Len(array') + 1 /\ \A i \in 1..(spot - 1) : array'[i] = array[i]
  <2>1. spot <= (Len(array) - 1) + 1
        /\ \A i \in 1..(spot - 1) : i \in 1..(Len(array) - 1) /\ i < spot
    BY <1>1
  <2> QED
    BY <1>3, <1>4, <2>1
<1>7. RInv'
  BY <1>2, <1>3, <1>5, <1>6, SpotKept
<1> QED
  BY <1>1, <1>2, <1>7

\* What does not concern the array: what the sequenced index does with the elements it
\* has, the vector's room and the walk.
LEMMA SameArray ==
  ASSUME LInv, RInv, array' = array, registry' = registry, ToSet(Order') = ToSet(Order),
         \/ StopVisit \/ UNCHANGED <<spot, met>>
  PROVE  RInv'
<1>1. IsList(registry', array') /\ ToSet(array') = Elements'
  BY DEF RInv, Elements
<1>2. spot <= Len(array') + 1
  BY ArrayIsList DEF RInv
<1> QED
  BY <1>1, <1>2, SpotKept

LEMMA ListOnlyStep ==
  ASSUME LInv, RInv, ListOnly
  PROVE  RInv' /\ Next
<1>1. array' = array /\ registry' = registry /\ UNCHANGED <<spot, met>>
  BY DEF ListOnly, places
<1>2. CASE \E n \in Node, b \in Node \cup {Nil} : Relocate(b, n)
  BY <1>1, <1>2, RelocateStep, SameArray DEF Next
<1>3. CASE MoveToFront
  BY <1>1, <1>3, MoveToFrontStep, SameArray DEF Next
<1>4. CASE ReverseAll
  <2>1. IsList(list', Reverse(Order))
    BY <1>4, ReversedList DEF ReverseAll, LInv
  <2>2. Order' = Reverse(Order)
    BY <2>1, ListIsRead DEF Order
  <2>3. ToSet(Order') = ToSet(Order)
    BY <2>2, OrderIsList, Reversal
  <2> QED
    BY <1>1, <1>4, <2>3, SameArray DEF Next
<1>5. CASE ObserverThrows \/ StartWalk \/ StepWalk \/ EndWalk
  <2>1. ToSet(Order') = ToSet(Order)
    BY <1>5 DEF ObserverThrows, StartWalk, StepWalk, EndWalk, Order
  <2> QED
    BY <1>1, <1>5, <2>1, SameArray DEF Next
<1> QED
  BY <1>2, <1>3, <1>4, <1>5 DEF ListOnly

LEMMA ClearAllStep ==
  ASSUME LInv, RInv, ClearAll
  PROVE  RInv'
<1>1. /\ Clear /\ array' = <<>> /\ registry' = [registry EXCEPT !.head = Nil, !.tail = Nil]
      /\ StopVisit
  BY DEF ClearAll
<1>2. registry' \in Lists /\ registry'.head = Nil /\ registry'.tail = Nil
  BY <1>1 DEF RInv, IsList, Lists
<1>3. IsList(registry', array') /\ ToSet(array') = Elements'
  BY <1>1, <1>2, ClearStep, EmptyList DEF Elements
<1> QED
  BY <1>1, <1>3, SpotKept

LEMMA VisitSteps ==
  ASSUME LInv, RInv, StartVisit \/ StepVisit \/ EndVisit \/ \E c \in 1..Cardinality(Node) : Reserve(c)
  PROVE  RInv' /\ UNCHANGED vars
<1>1. UNCHANGED <<vars, array, registry>>
  BY DEF StartVisit, StepVisit, EndVisit, Reserve
<1>2. ToSet(Order') = ToSet(Order) /\ Elements' = Elements
  BY <1>1 DEF Order, Elements, vars
<1>3. spot \in 0..(Len(array) + 1) /\ Len(array) \in Nat
  BY ArrayIsList DEF RInv
<1>4. CASE EndVisit \/ \E c \in 1..Cardinality(Node) : Reserve(c)
  <2>1. StopVisit
    BY <1>4 DEF EndVisit, Reserve
  <2> QED
    BY <1>1, <1>2, <2>1, SameArray
<1>5. CASE StartVisit
  <2>1. spot' = 1 /\ met' = {}
    BY <1>5 DEF StartVisit, RInv
  <2>2. InFront(array, 1) = {} /\ 1 \in 0..(Len(array) + 1)
    BY <1>3 DEF InFront
  <2> QED
    BY <1>1, <1>2, <2>1, <2>2 DEF RInv, NoSpot
<1>6. CASE StepVisit
  <2>1. spot \in 1..Len(array) /\ spot' = spot + 1 /\ met' = met \cup {array[spot]}
    BY <1>6, ArrayIsList DEF StepVisit
  <2>2. spot + 1 \in 0..(Len(array) + 1) /\ spot + 1 # 0 /\ spot # 0 /\ (spot + 1) - 1 = spot
    BY <1>3, <2>1
  <2>3. InFront(array, spot + 1) = InFront(array, spot) \cup {array[spot]}
    <3>1. 1..spot = (1..(spot - 1)) \cup {spot}
      BY <2>1
    <3> QED
      BY <2>2, <3>1 DEF InFront
  <2> QED
    BY <1>1, <1>2, <2>1, <2>2, <2>3 DEF RInv, NoSpot
<1> QED
  BY <1>1, <1>4, <1>5, <1>6

\* A step of the array's is one of the list's, and keeps the array's invariant.
LEMMA EveryArrayStep ==
  ASSUME LInv, RInv, [RNext]_rvars
  PROVE  RInv' /\ [Next]_vars
<1>1. CASE UNCHANGED rvars
  <2>1. UNCHANGED vars /\ UNCHANGED places
    BY <1>1 DEF rvars
  <2>2. ToSet(Order') = ToSet(Order)
    BY <2>1 DEF Order, vars
  <2> QED
    BY <2>1, <2>2, SameArray DEF places
<1>2. ASSUME NEW n \in Node, Insert(n) \/ InsertRefused(n) \/ EraseElsewhere(n)
      PROVE  RInv' /\ [Next]_vars
  <2>1. Next
    BY <1>2 DEF Insert, InsertRefused, EraseElsewhere, Next
  <2> QED
    BY <1>2, <2>1, InsertStep, InsertRefusedStep, EraseElsewhereStep
<1>3. CASE EraseAtSpot
  BY <1>3, EraseAtSpotStep DEF Next
<1>4. CASE ClearAll
  BY <1>4, ClearAllStep DEF ClearAll, Next
<1>5. CASE ListOnly
  BY <1>5, ListOnlyStep
<1>6. CASE StartVisit \/ StepVisit \/ EndVisit \/ \E c \in 1..Cardinality(Node) : Reserve(c)
  BY <1>6, VisitSteps
<1> QED
  BY <1>1, <1>2, <1>3, <1>4, <1>5, <1>6 DEF RNext

\* Both indices run in step; what is proved of the list holds here too.
THEOREM RInvHolds == RSpec => Spec /\ [](LInv /\ RInv)
<1>1. RInit => Init /\ LInv /\ RInv
  BY LInitial, RInitial DEF RInit
<1>2. LInv /\ RInv /\ [RNext]_rvars => LInv' /\ RInv' /\ [Next]_vars
  BY EveryArrayStep, EveryListStep DEF ListStep
<1> QED
  BY <1>1, <1>2, PTL DEF RSpec, Spec

\* rand_core's array follows the order of insertion, as the registry does, whatever the
\* sequenced index is rearranged into, and index_of undoes nth, for every number of nodes.
THEOREM PositionsFollowAge == RSpec => []PositionsByAge
<1>1. LInv /\ RInv => PositionsByAge
  <2> SUFFICES ASSUME LInv, RInv PROVE PositionsByAge
    OBVIOUS
  <2>1. array = From(registry.next, registry.head)
    BY ArrayIsList
  <2>2. array = Reverse(From(registry.prev, registry.tail))
    BY ArrayIsList, ReversedTwice
  <2>3. Len(array) = Len(Order)
    BY ArrayIsList, OrderIsList, SameLength DEF RInv, Elements
  <2>4. ASSUME NEW n \in Elements PROVE NthAt(IndexOf(n)) = n
    <3>1. PICK at \in 1..Len(array) : n = array[at]
      BY ArrayIsList DEF RInv, ToSet
    <3> DEFINE I == {j \in 1..Len(array) : array[j] = n}
    <3>2. I # {} /\ Min(I) = at
      BY <3>1, ArrayIsList, OnlyPlace
    <3>3. PlaceOf(n) = at
      BY <3>2 DEF PlaceOf, SelectInSeq
    <3>4. (at - 1) + 1 = at
      BY ArrayIsList
    <3> QED
      BY <3>1, <3>3, <3>4 DEF NthAt, IndexOf
  <2> QED
    BY <2>1, <2>2, <2>3, <2>4 DEF PositionsByAge, RInv
<1> QED
  BY <1>1, RInvHolds, PTL

\* A walk over positions has passed exactly the elements in front of it, also when it
\* erases as it goes, for every number of nodes.
THEOREM VisitsAreExact == RSpec => []VisitExact
<1>1. RInv => VisitExact
  <2> SUFFICES ASSUME RInv, spot # NoSpot
               PROVE  spot <= Len(array) + 1 /\ met = ToSet(SubSeq(array, 1, spot - 1))
    BY DEF VisitExact
  <2>1. spot \in 1..(Len(array) + 1) /\ Len(array) \in Nat /\ met = InFront(array, spot)
    BY ArrayIsList DEF RInv, NoSpot
  <2> DEFINE u == SubSeq(array, 1, spot - 1)
  <2>2. 1 \in 1..(Len(array) + 1) /\ spot - 1 \in (1 - 1)..Len(array)
    BY <2>1
  <2>3. /\ u \in Seq(Node) /\ Len(u) = (IF 1 <= spot - 1 THEN (spot - 1) - 1 + 1 ELSE 0)
        /\ \A i \in 1..((spot - 1) - 1 + 1) : u[i] = array[1 + i - 1]
    BY <2>1, <2>2, ArrayIsList, SubSeqProperties
  <2> HIDE DEF u
  <2>4. Len(u) = spot - 1 /\ DOMAIN u = 1..Len(u) /\ \A i \in 1..(spot - 1) : u[i] = array[i]
    BY <2>1, <2>3, LenProperties
  <2>5. ToSet(u) = InFront(array, spot)
    BY <2>4 DEF ToSet, InFront
  <2> QED
    BY <2>1, <2>5 DEF u
<1> QED
  BY <1>1, RInvHolds, PTL
=============================================================================
